---- MODULE Spec2Model ----
(***************************************************************************)
(* Model of the portfolio site's interactive core: the Category Filter     *)
(* Controller (js/filter.js), the Reveal Animation Controller and Stagger  *)
(* Scheduler (js/animations.js and its earlier revision), driven by the    *)
(* browser's event loop: clicks, timers, animation frames, observer        *)
(* callbacks, scroll and resize.                                           *)
(*                                                                         *)
(* Two revisions of the reveal controller are in the repository.  The      *)
(* variable `variant` fixes which one is loaded: "current" is              *)
(* src/js/animations.js, "earlier" is src/unnamed/part_004.                *)
(*                                                                         *)
(* Lengths are CSS pixels, delays are milliseconds ("0.08s" is 80).        *)
(***************************************************************************)
EXTENDS Integers, Sequences, FiniteSets, TLC

\* ---------------------------------------------------------------- bounds
NumCards == 2            \* cards in the project grid (each an anim-* element)
MaxPending == 2          \* filter applications whose timers may be pending at once
MaxRaf == 2              \* reinitialize calls whose frames may be pending at once
MaxStagger == 2          \* cap on the observer path's stagger counter
MaxCenterEvents == 3     \* scroll/resize events counted between two frames
MaxNavSteps == 8         \* the window scrolls over MaxNavSteps steps of 25 px

Cards == 1..NumCards
MaxTimers == MaxPending * (NumCards + 1)

\* ------------------------------------------------------------- constants
ANIMATION_DURATION == 300
STAGGER_STEP == 80
GridStaggerStep == 100
Variants == {"current", "earlier"}
Null == "null"

\* The pages of the site, by pathname.
Paths == {"/", "/about"}
NoDelay == -1            \* style.transitionDelay = ''

\* The page: a phone's and a desktop's window width, the card box and the
\* window height; the grid is 3, 2 or 1 columns wide.
MobileWidth == 600
DesktopWidth == 1400
CardHeight == 400
InnerHeight == 400
Filters == {"all", "web", "print"}

\* data-categories of card c as split(' ') sees it: "web", "print  web"
\* (two spaces, hence an empty piece), and an absent attribute ('' gives ['']).
dataCategories(c) ==
  CASE c % 3 = 1 -> <<"web">>
    [] c % 3 = 2 -> <<"print", "", "web">>
    [] OTHER -> <<"">>

\* ------------------------------------------------------------- variables
VARIABLES
  variant,               \* which revision of the reveal controller is loaded
  prefersReducedMotion,  \* matchMedia('(prefers-reduced-motion: reduce)').matches
  filterReady,           \* filter init ran and attached its handlers
  animReady,             \* reveal controller init ran
  pillActive,            \* filter pill -> carries 'active' (aria-selected follows)
  hidden,                \* card -> carries 'filter-hidden'
  display,               \* card -> inline style.display: "" or "none"
  timers,                \* pending ANIMATION_DURATION timers, in firing order
  staleFired,            \* history: a display timer of a superseded selection fired
  observer,              \* Null, or "live" once an IntersectionObserver was made
  observed,              \* targets registered with the instance `observer` holds
  orphaned,              \* targets registered with instances no longer referenced
  revealed,              \* element -> carries 'is-visible'
  byObserver,            \* history: revealed by a callback since the last reinitialize
  transition,            \* element -> inline style.transition: "" or "none"
  delay,                 \* element -> inline transitionDelay in ms, or NoDelay
  forced,                \* element -> inline opacity '1' and transform 'none'
  rafQueue,              \* requestAnimationFrame callbacks waiting for a frame
  uncommitted,           \* elements whose cleared state no frame has rendered yet
  staggerIndex,          \* current revision: the observer path's stagger counter
  staggerResetTimer,     \* current revision: the counter's reset timer is pending
  resetTimers,           \* the reset timers that are pending
  sinceReset,            \* history: elements the observer path revealed since the counter was reset
  resizeTimeout,         \* the debounced resize timer is pending
  scrollY,               \* window.scrollY
  innerWidth,            \* window.innerWidth
  resyncFor,             \* history: filter of each application whose resync is pending
  pointerOver,           \* the card the pointer is over, or 0
  hovered,               \* card -> carries 'is-hovered'
  activeCards,           \* the Map card -> parallax session
  parallax,              \* card -> --parallax-x / --parallax-y of its image
  parallaxRaf,           \* pending animateParallax callbacks: [card, id]
  stepsTaken,            \* history: card -> steps run since its target last changed
  moves,                 \* history: pointer moves since the pointer entered
  cancelledStep,         \* history: the card whose leave, the last one, cancelled a step
  videoPaused,           \* card -> video.paused
  videoTime,             \* card -> video.currentTime: 0, or 1 once playback advanced
  stopRaf,               \* card -> video._stopRaf is set and its doStop is pending
  pauseListeners,        \* card -> once-listeners for 'pause' on its video
  pauseEvents,           \* card -> a 'pause' event is queued for dispatch
  playPending,           \* card -> a play() promise is neither resolved nor rejected
  lastPlay,              \* history: card -> what became of its latest play() call
  unhandled,             \* a promise rejection reached no handler
  pillAria,              \* filter pill -> its aria-selected attribute
  itemActive,            \* dropdown item -> carries 'active'
  itemAria,              \* dropdown item -> its aria-selected attribute
  dropdownOpen,          \* the dropdown container carries 'open'
  ariaExpanded,          \* the dropdown toggle's aria-expanded, or Null
  dropdownLabel,         \* the filter whose label the dropdown toggle shows
  selected,              \* history: the value handleFilterSelect last got, or Null
  pageCards,             \* the .project-card elements the page holds
  warnings,              \* the console.warn calls made: [by, text]
  supportsHover,         \* matchMedia('(hover: hover)').matches
  cardScript,            \* the card module the page loads
  cardHandlers,          \* the listeners the card module attached
  isCenterTicking,       \* a frame for updateCenteredCard is requested
  centerRaf,             \* pending frame callbacks of requestCenterTick
  centerEvents,          \* history: scroll/resize events since the last such frame
  centered,              \* card -> carries 'is-centered'
  centeredCard,          \* the module's centeredCard, or 0
  flipIntervalId,        \* the module's flipIntervalId, or 0
  intervals,             \* the ids of the intervals that are active
  isFlipped,             \* the module's isFlipped
  flipped,               \* card -> carries 'is-flipped'
  storedTheme,           \* localStorage 'theme', or Null
  systemLight,           \* matchMedia('(prefers-color-scheme: light)').matches
  dataTheme,             \* the root's data-theme attribute, or Null
  themeReady,            \* the theme module's init ran
  hasToggle,             \* the page holds #theme-toggle
  hasMatchMedia,         \* window.matchMedia exists
  ariaLabel,             \* the theme the toggle's aria-label offers, or Null
  transitioning,         \* body carries 'theme-transitioning'
  transitionTimers,      \* pending timers that end the theme transition
  toggleFrom,            \* history: the theme before the toggle made last, or Null
  navReady,              \* the navigation module's init ran
  hasNavHeader,          \* the page holds #nav-header
  hasMenuBtn,            \* the page holds #nav-menu-btn
  hasMobileMenu,         \* the page holds #mobile-menu
  navScrolled,           \* the header carries 'nav-scrolled'
  navHidden,             \* the header carries 'nav-hidden'
  lastScrollY,           \* the navigation module's lastScrollY
  ticking,               \* the navigation module's ticking
  navRaf,                \* pending frame callbacks of requestTick
  btnActive,             \* the menu button carries 'active'
  menuActive,            \* the mobile menu carries 'active'
  menuExpanded,          \* the menu button's aria-expanded, or Null
  menuHidden,            \* the mobile menu's aria-hidden, or Null
  bodyOverflow,          \* document.body.style.overflow
  pageScript,            \* the revision of the page-transition module the page loads
  pageReady,             \* the page-transition module's init ran
  currentPath,           \* window.location.pathname
  lastPagePath,          \* sessionStorage 'lastPagePath', or Null
  savedScroll,           \* path -> sessionStorage 'scrollY_' + path in tenths of a pixel, or NoPosition
  subpixel,              \* the tenths of a pixel of window.scrollY
  scrollSaveTimer,       \* the timer that saves the scroll position is pending
  pageTransitioning,     \* body carries 'page-transitioning'
  pendingNav,            \* the paths of the navigations whose timers are pending
  loadTimer,             \* the timer set on DOMContentLoaded is pending
  initScrollTo,          \* the y init passed to window.scrollTo, or NoPosition
  reloadPending,         \* location.reload() was called
  hasObserver,           \* 'IntersectionObserver' in window
  uncaught               \* an exception left a handler of the reveal controller

filterVars == <<filterReady, pillActive, hidden, display, timers, staleFired,
                resyncFor, pillAria, itemActive, itemAria, dropdownOpen,
                ariaExpanded,
                dropdownLabel, selected>>
revealVars == <<observer, observed, orphaned, revealed, byObserver, transition,
                delay, rafQueue, uncommitted>>
staggerVars == <<staggerIndex, staggerResetTimer, resetTimers, sinceReset>>
envVars == <<variant, prefersReducedMotion>>
hoverVars == <<pointerOver, hovered, activeCards, parallax, parallaxRaf,
               stepsTaken, moves, cancelledStep>>
videoVars == <<videoPaused, videoTime, stopRaf, pauseListeners, pauseEvents,
               playPending, lastPlay, unhandled>>
\* The rate limiter of the centre highlight.
tickVars == <<isCenterTicking, centerRaf, centerEvents>>
markupVars == <<pageCards, supportsHover, cardScript, hasObserver>>
centerVars == <<centered, centeredCard, flipIntervalId, intervals, isFlipped,
                flipped>>
themeVars == <<storedTheme, systemLight, dataTheme, themeReady, hasToggle,
               hasMatchMedia,
               ariaLabel, transitioning, transitionTimers, toggleFrom>>
\* The navigation module: the header's scroll behaviour and the mobile menu.
navMarkup == <<hasNavHeader, hasMenuBtn, hasMobileMenu>>
headerVars == <<navScrolled, navHidden, lastScrollY, ticking, navRaf>>
menuVars == <<btnActive, menuActive, menuExpanded, menuHidden, bodyOverflow>>
\* The page-transition module, the session storage and the address.
pagesVars == <<pageScript, pageReady, currentPath, lastPagePath, savedScroll,
               subpixel, scrollSaveTimer, pageTransitioning, pendingNav,
               loadTimer, initScrollTo, reloadPending>>
shellVars == <<navReady, navMarkup, headerVars, menuVars, pagesVars>>
siteVars == <<markupVars, shellVars, centerVars, themeVars, cardHandlers>>
vars == <<variant, prefersReducedMotion, filterReady, animReady, pillActive,
          hidden, display, timers, staleFired, observer, observed, orphaned,
          revealed, byObserver, transition, delay, forced, rafQueue, uncommitted, staggerIndex,
          staggerResetTimer, resetTimers, sinceReset, resizeTimeout, scrollY,
          innerWidth, resyncFor,
          pointerOver, hovered, activeCards, parallax, parallaxRaf, stepsTaken,
          moves, cancelledStep,
          videoPaused, videoTime, stopRaf, pauseListeners, pauseEvents,
          playPending, lastPlay, unhandled,
          pillAria, itemActive, itemAria, dropdownOpen, ariaExpanded,
          dropdownLabel, selected,
          pageCards, warnings, uncaught, supportsHover, cardScript, cardHandlers,
          isCenterTicking, centerRaf, centerEvents, centered, centeredCard, flipIntervalId, intervals,
          isFlipped, flipped, storedTheme, systemLight, dataTheme, themeReady,
          hasToggle, ariaLabel, transitioning, transitionTimers, toggleFrom,
          hasObserver, hasMatchMedia,
          navReady, hasNavHeader, hasMenuBtn, hasMobileMenu, navScrolled,
          navHidden, lastScrollY, ticking, navRaf, btnActive, menuActive,
          menuExpanded, menuHidden, bodyOverflow, pageScript, pageReady,
          currentPath, lastPagePath, savedScroll, subpixel, scrollSaveTimer,
          pageTransitioning, pendingNav, loadTimer, initScrollTo,
          reloadPending>>

\* ------------------------------------------------------- viewport, layout
\* Mutant: the breakpoints themselves fall into the narrower tier.
getGridColumns_exclusive(width) ==
  IF width > 1024 THEN 3 ELSE IF width > 768 THEN 2 ELSE 1

getGridColumns(width) ==
  IF width >= 1024 THEN 3 ELSE IF width >= 768 THEN 2 ELSE 1

\* Number of displayed cards before c in DOM order.
visibleIndex(c, disp) ==
  Cardinality({d \in DOMAIN disp : d < c /\ disp[d] # "none"})

\* getBoundingClientRect of card c: displayed cards fill the grid row by row;
\* a card with display none has no box and reports the zero rectangle.
rectOf(c, disp, width, sy) ==
  IF disp[c] = "none"
  THEN [top |-> 0, bottom |-> 0, left |-> 0, right |-> 0]
  ELSE LET cols == getGridColumns(width)
           row == visibleIndex(c, disp) \div cols
           col == visibleIndex(c, disp) % cols
           colw == width \div cols
       IN [top |-> row * CardHeight - sy,
           bottom |-> row * CardHeight - sy + CardHeight,
           left |-> col * colw,
           right |-> col * colw + colw]

isInViewport(c, disp, width, sy) ==
  LET rect == rectOf(c, disp, width, sy)
  IN /\ rect.top < InnerHeight
     /\ rect.bottom > 0
     /\ rect.left < width
     /\ rect.right > 0

\* The page is at its top or scrolled down by one row of cards.
ScrollPositions == {0, CardHeight}

\* ------------------------------------------------------- filter controller
\* categories.split(' ').filter(Boolean)
categoryList(c) == SelectSeq(dataCategories(c), LAMBDA t : t # "")

\* Mutant: only the first piece of the attribute is compared.
shouldShow_firstPiece(filterValue, c) ==
  \/ filterValue = "all"
  \/ dataCategories(c)[1] = filterValue

shouldShow(filterValue, c) ==
  \/ filterValue = "all"
  \/ \E i \in 1..Len(categoryList(c)) : categoryList(c)[i] = filterValue

\* Mutant: the class is added to the matching pill and never removed.
updatePillStates_addOnly(activeFilter) ==
  [p \in DOMAIN pillActive |-> pillActive[p] \/ p = activeFilter]

\* The 'active' class of every pill, keyed by the pill's data-filter.
updatePillStates(activeFilter) ==
  [p \in DOMAIN pillActive |-> p = activeFilter]

updateDropdownItemStates(activeFilter) ==
  [i \in DOMAIN itemActive |-> i = activeFilter]

\* setAttribute('aria-selected', isActive ? 'true' : 'false') on every
\* control of a group.
ariaSelected(group, activeFilter) ==
  [p \in group |-> IF p = activeFilter THEN "true" ELSE "false"]

DisplayTimer(c, v) ==
  [kind |-> "display", card |-> c, value |-> v, after |-> ANIMATION_DURATION]
\* Mutant: the resync waits two windows.
ReinitTimer_twoWindows ==
  [kind |-> "reinit", card |-> 0, value |-> "",
   after |-> 2 * ANIMATION_DURATION]

ReinitTimer ==
  [kind |-> "reinit", card |-> 0, value |-> "", after |-> ANIMATION_DURATION]

\* The class each card gets synchronously.
filterClasses(filterValue) == [c \in Cards |-> ~shouldShow(filterValue, c)]

\* Mutant: the resync timer is set before the cards' display timers.
filterTimers_resyncFirst(filterValue) ==
  [i \in 1..(NumCards + 1) |->
     IF i = 1 THEN ReinitTimer
     ELSE DisplayTimer(i - 1, IF shouldShow(filterValue, i - 1) THEN ""
                              ELSE "none")]

\* The timers one application schedules: one per card in DOM order, then
\* the reveal resync, all with the same delay.  Timers of equal delay fire
\* in the order they were set, so `timers` is a queue.
filterTimers(filterValue) ==
  [i \in 1..(NumCards + 1) |->
     IF i <= NumCards
     THEN DisplayTimer(i, IF shouldShow(filterValue, i) THEN "" ELSE "none")
     ELSE ReinitTimer]

\* Mutant: the new timers fire before the ones already pending.
filterCards_newestFirst(filterValue) ==
  /\ hidden' = filterClasses(filterValue)
  /\ timers' = filterTimers(filterValue) \o timers

filterCards(filterValue) ==
  /\ hidden' = filterClasses(filterValue)
  /\ timers' = timers \o filterTimers(filterValue)

\* Mutant: the class goes, the toggle's aria-expanded stays.
closeDropdown_classOnly ==
  /\ dropdownOpen' = FALSE
  /\ UNCHANGED ariaExpanded

closeDropdown ==
  /\ dropdownOpen' = FALSE
  /\ ariaExpanded' = "false"

openDropdown ==
  /\ dropdownOpen' = TRUE
  /\ ariaExpanded' = "true"

\* attachDropdownHandlers stops without the toggle button; the page has the
\* toggle and the container when it has dropdown items.
hasDropdown == DOMAIN itemActive # {}

\* The document's click listener, reached by a click outside the dropdown
\* container.
outsideClickListener ==
  IF filterReady /\ hasDropdown /\ dropdownOpen
  THEN closeDropdown
  ELSE UNCHANGED <<dropdownOpen, ariaExpanded>>

\* fromItem: the clicked element is a dropdown item.  bubbles: the call
\* comes from a click on an element outside the dropdown container, which
\* the document's click listener sees after the element's own listener.
handleFilterSelect(filterValue, fromItem, bubbles) ==
  /\ pillActive' = updatePillStates(filterValue)
  /\ pillAria' = ariaSelected(DOMAIN pillAria, filterValue)
  /\ itemActive' = updateDropdownItemStates(filterValue)
  /\ itemAria' = ariaSelected(DOMAIN itemAria, filterValue)
  /\ dropdownLabel' = filterValue
  /\ IF fromItem THEN closeDropdown
     ELSE IF bubbles THEN outsideClickListener
     ELSE UNCHANGED <<dropdownOpen, ariaExpanded>>
  /\ selected' = filterValue
  /\ filterCards(filterValue)


\* --------------------------------------------------------- filter actions
NoFilterButtons ==
  [by |-> "filter",
   text |-> "No filter buttons found (.filter-pill or .filter-dropdown-item)"]
NoFilterCards ==
  [by |-> "filter", text |-> "No project cards found (.project-card)"]

\* Mutant: init attaches the handlers and selects nothing.
filterInit_noSelect ==
  /\ ~filterReady
  /\ pageCards # {}
  /\ filterReady' = TRUE
  /\ UNCHANGED <<pillActive, pillAria, itemActive, itemAria, dropdownLabel,
                 dropdownOpen, ariaExpanded, selected, hidden, timers,
                 resyncFor, display,
                 staleFired, warnings>>
  /\ UNCHANGED <<animReady, forced, resizeTimeout, scrollY, innerWidth>>
  /\ UNCHANGED <<revealVars, staggerVars, envVars, siteVars, tickVars,
                 uncaught, hoverVars, videoVars>>

\* init: cache the elements; without any filter control, or without any
\* card, warn and stop; otherwise attach the handlers and select 'all' when
\* a control for it exists (a pill first, else a dropdown item).
filterInit ==
  /\ ~filterReady
  /\ \A w \in warnings : w.by # "filter"
  /\ IF DOMAIN pillActive = {} /\ DOMAIN itemActive = {}
     THEN /\ warnings' = warnings \cup {NoFilterButtons}
          /\ UNCHANGED filterVars
     ELSE IF pageCards = {}
     THEN /\ warnings' = warnings \cup {NoFilterCards}
          /\ UNCHANGED filterVars
     ELSE /\ filterReady' = TRUE
          /\ IF "all" \in DOMAIN pillActive
             THEN /\ handleFilterSelect("all", FALSE, FALSE)
                  /\ resyncFor' = Append(resyncFor, "all")
             ELSE IF "all" \in DOMAIN itemActive
             THEN /\ handleFilterSelect("all", TRUE, FALSE)
                  /\ resyncFor' = Append(resyncFor, "all")
             ELSE UNCHANGED <<pillActive, pillAria, itemActive, itemAria,
                              dropdownLabel, dropdownOpen, ariaExpanded,
                              selected, hidden,
                              timers, resyncFor>>
          /\ UNCHANGED <<display, staleFired, warnings>>
  /\ UNCHANGED <<animReady, forced, resizeTimeout, scrollY, innerWidth>>
  /\ UNCHANGED <<revealVars, staggerVars, envVars, siteVars, tickVars,
                 uncaught, hoverVars, videoVars>>

\* A click on the pill whose data-filter is f, once the page has loaded.
pillClick(f) ==
  /\ filterReady /\ animReady
  /\ f \in DOMAIN pillActive
  /\ Len(timers) + NumCards + 1 <= MaxTimers
  /\ handleFilterSelect(f, FALSE, TRUE)
  /\ resyncFor' = Append(resyncFor, f)
  /\ UNCHANGED <<filterReady, display, staleFired, animReady, forced,
                 resizeTimeout, scrollY, innerWidth>>
  /\ UNCHANGED <<revealVars, staggerVars, envVars, siteVars, warnings, uncaught,
                 tickVars, hoverVars, videoVars>>

\* A click on the dropdown item whose data-filter is f.
itemClick(f) ==
  /\ filterReady /\ animReady
  /\ f \in DOMAIN itemActive
  /\ Len(timers) + NumCards + 1 <= MaxTimers
  /\ handleFilterSelect(f, TRUE, FALSE)
  /\ resyncFor' = Append(resyncFor, f)
  /\ UNCHANGED <<filterReady, display, staleFired, animReady, forced,
                 resizeTimeout, scrollY, innerWidth>>
  /\ UNCHANGED <<revealVars, staggerVars, envVars, siteVars, warnings, uncaught,
                 tickVars, hoverVars, videoVars>>

\* A click on the dropdown's toggle button.
toggleDropdown ==
  /\ filterReady
  /\ hasDropdown
  /\ IF dropdownOpen THEN closeDropdown ELSE openDropdown
  /\ UNCHANGED <<filterReady, pillActive, hidden, display, timers, staleFired,
                 resyncFor, pillAria, itemActive, itemAria, dropdownLabel,
                 selected>>
  /\ UNCHANGED <<revealVars, staggerVars, envVars, siteVars, warnings, uncaught,
                 tickVars, hoverVars, videoVars, animReady, forced,
                 resizeTimeout, scrollY, innerWidth>>

\* A click on the page outside the dropdown container and off the filter
\* controls.
outsideClick ==
  /\ filterReady
  /\ hasDropdown
  /\ outsideClickListener
  /\ UNCHANGED <<filterReady, pillActive, hidden, display, timers, staleFired,
                 resyncFor, pillAria, itemActive, itemAria, dropdownLabel,
                 selected>>
  /\ UNCHANGED <<revealVars, staggerVars, envVars, siteVars, warnings, uncaught,
                 tickVars, hoverVars, videoVars, animReady, forced,
                 resizeTimeout, scrollY, innerWidth>>

\* The Escape key: the document's keydown listener.
escapeKey ==
  /\ filterReady
  /\ hasDropdown
  /\ IF dropdownOpen THEN closeDropdown
     ELSE UNCHANGED <<dropdownOpen, ariaExpanded>>
  /\ UNCHANGED <<filterReady, pillActive, hidden, display, timers, staleFired,
                 resyncFor, pillAria, itemActive, itemAria, dropdownLabel,
                 selected>>
  /\ UNCHANGED <<revealVars, staggerVars, envVars, siteVars, warnings, uncaught,
                 tickVars, hoverVars, videoVars, animReady, forced,
                 resizeTimeout, scrollY, innerWidth>>

\* ------------------------------------------------------- stagger scheduler
rank(e, S) == Cardinality({d \in S : d < e})

applyStaggerDelays_current(grid, disp, width, old) ==
  IF ~grid THEN old ELSE [c \in DOMAIN disp |-> NoDelay]

\* Mutant: a child that already carries a delay has it cleared.
applyStaggerDelays_earlier_toggle(grid, disp, width, old) ==
  IF ~grid THEN old
  ELSE LET columns == getGridColumns(width)
       IN [c \in DOMAIN disp |->
             IF disp[c] # "none" /\ old[c] = NoDelay
             THEN (visibleIndex(c, disp) % columns) * GridStaggerStep
             ELSE NoDelay]

applyStaggerDelays_earlier(grid, disp, width, old) ==
  IF ~grid THEN old
  ELSE LET columns == getGridColumns(width)
       IN [c \in DOMAIN disp |->
             IF disp[c] # "none"
             THEN (visibleIndex(c, disp) % columns) * GridStaggerStep
             ELSE NoDelay]

applyStaggerDelays(v, grid, disp, width, old) ==
  IF v = "current" THEN applyStaggerDelays_current(grid, disp, width, old)
  ELSE applyStaggerDelays_earlier(grid, disp, width, old)

\* ------------------------------------------------------- reveal controller
\* Mutant: the class is given to S and taken from everything else.
markVisible_only(rev, S) == [e \in Cards |-> e \in S]

\* classList.add('is-visible') on every element of S.
markVisible(rev, S) == [e \in Cards |-> rev[e] \/ e \in S]

\* classList.remove('is-visible') on every animation element.
clearVisible(rev) == [e \in Cards |-> FALSE]

\* The entries of a callback for targets S that report isIntersecting: the
\* target has a box and the box overlaps the viewport.
intersecting(S) == {e \in S : isInViewport(e, display, innerWidth, scrollY)}

\* What observer.unobserve(el) for every el of S leaves registered.  It is
\* always the instance the module variable holds that is asked.
unobserve(targets, S) == targets \ S

\* Mutant: the counter advances once for a batch.
handleIntersection_current_perBatch(entries) ==
  LET toShow == intersecting(entries)
  IN IF toShow = {}
     THEN UNCHANGED <<revealed, byObserver, delay, observed, staggerIndex,
                      staggerResetTimer, resetTimers, sinceReset>>
     ELSE /\ delay' = [e \in Cards |->
                         IF e \in toShow
                         THEN (staggerIndex + rank(e, toShow)) * STAGGER_STEP
                         ELSE delay[e]]
          /\ staggerIndex' = staggerIndex + 1
          /\ revealed' = markVisible(revealed, toShow)
          /\ byObserver' = byObserver \cup toShow
          /\ observed' = unobserve(observed, toShow)
          /\ staggerResetTimer' = TRUE
          /\ resetTimers' = 1
          /\ sinceReset' = sinceReset + Cardinality(toShow)

handleIntersection_current(entries) ==
  LET toShow == intersecting(entries)
  IN IF toShow = {}
     THEN UNCHANGED <<revealed, byObserver, delay, observed, staggerIndex,
                      staggerResetTimer, resetTimers, sinceReset>>
     ELSE /\ delay' = [e \in Cards |->
                         IF e \in toShow
                         THEN (staggerIndex + rank(e, toShow)) * STAGGER_STEP
                         ELSE delay[e]]
          /\ staggerIndex' = staggerIndex + Cardinality(toShow)
          /\ revealed' = markVisible(revealed, toShow)
          /\ byObserver' = byObserver \cup toShow
          /\ observed' = unobserve(observed, toShow)
          /\ staggerResetTimer' = TRUE
          /\ resetTimers' = 1
          /\ sinceReset' = sinceReset + Cardinality(toShow)

handleIntersection_earlier(entries) ==
  LET toShow == intersecting(entries)
  IN /\ revealed' = markVisible(revealed, toShow)
     /\ byObserver' = byObserver \cup toShow
     /\ observed' = unobserve(observed, toShow)
     /\ UNCHANGED <<delay, staggerIndex, staggerResetTimer, resetTimers,
                    sinceReset>>

handleIntersection(entries) ==
  IF variant = "current" THEN handleIntersection_current(entries)
  ELSE handleIntersection_earlier(entries)

\* A callback of the instance the controller holds.
observerCallback(S) ==
  /\ observer # Null
  /\ S # {} /\ S \subseteq observed
  /\ staggerIndex + Cardinality(S) <= MaxStagger
  /\ handleIntersection(S)
  /\ UNCHANGED <<observer, orphaned, transition, rafQueue, uncommitted>>
  /\ UNCHANGED <<filterVars, envVars, siteVars, warnings, uncaught, tickVars, hoverVars, videoVars, animReady, forced, resizeTimeout, scrollY,
                 innerWidth>>

\* A callback of an instance the controller no longer holds: the same
\* handler runs, and its unobserve goes to the instance held now.
orphanCallback(S) ==
  /\ S # {} /\ S \subseteq orphaned
  /\ staggerIndex + Cardinality(S) <= MaxStagger
  /\ handleIntersection(S)
  /\ UNCHANGED <<observer, orphaned, transition, rafQueue, uncommitted>>
  /\ UNCHANGED <<filterVars, envVars, siteVars, warnings, uncaught, tickVars, hoverVars, videoVars, animReady, forced, resizeTimeout, scrollY,
                 innerWidth>>

staggerResetFire ==
  /\ staggerResetTimer
  /\ staggerIndex' = 0
  /\ resetTimers' = resetTimers - 1
  /\ staggerResetTimer' = (resetTimers > 1)
  /\ sinceReset' = 0
  /\ UNCHANGED <<filterVars, revealVars, envVars, siteVars, warnings, uncaught, tickVars, hoverVars, videoVars, animReady, forced,
                 resizeTimeout, scrollY, innerWidth>>

\* Mutant: only the elements outside the viewport are observed.
init_current_offscreenOnly ==
  IF prefersReducedMotion
  THEN /\ revealed' = markVisible(revealed, Cards)
       /\ forced' = [e \in Cards |-> TRUE]
       /\ UNCHANGED <<observer, observed, delay, scrollY, uncaught>>
  ELSE /\ scrollY' = IF scrollY < 20 THEN 0 ELSE scrollY
       /\ observer' = "live"
       /\ observed' = {e \in Cards :
                         ~isInViewport(e, display, innerWidth, scrollY)}
       /\ delay' = applyStaggerDelays_current(TRUE, display, innerWidth, delay)
       /\ UNCHANGED <<revealed, forced, uncaught>>

\* Without IntersectionObserver the constructor call throws a
\* ReferenceError: what init did before it stays, the rest does not happen.
init_current ==
  IF prefersReducedMotion
  THEN /\ revealed' = markVisible(revealed, Cards)
       /\ forced' = [e \in Cards |-> TRUE]
       /\ UNCHANGED <<observer, observed, delay, scrollY, uncaught>>
  ELSE IF ~hasObserver
  THEN /\ scrollY' = IF scrollY < 20 THEN 0 ELSE scrollY
       /\ uncaught' = TRUE
       /\ UNCHANGED <<observer, observed, delay, revealed, forced>>
  ELSE /\ scrollY' = IF scrollY < 20 THEN 0 ELSE scrollY
       /\ observer' = "live"
       /\ observed' = Cards
       /\ delay' = applyStaggerDelays_current(TRUE, display, innerWidth, delay)
       /\ UNCHANGED <<revealed, forced, uncaught>>

init_earlier ==
  IF prefersReducedMotion
  THEN /\ revealed' = markVisible(revealed, Cards)
       /\ forced' = [e \in Cards |-> TRUE]
       /\ UNCHANGED <<observer, observed, delay, scrollY, uncaught>>
  ELSE LET inView == {e \in Cards : isInViewport(e, display, innerWidth, scrollY)}
       IN /\ delay' = applyStaggerDelays_earlier(TRUE, display, innerWidth, delay)
          /\ revealed' = markVisible(revealed, inView)
          /\ IF hasObserver
             THEN /\ observer' = "live"
                  /\ observed' = {e \in Cards : ~revealed'[e]}
                  /\ UNCHANGED uncaught
             ELSE /\ uncaught' = TRUE
                  /\ UNCHANGED <<observer, observed>>
          /\ UNCHANGED <<forced, scrollY>>

init ==
  /\ ~animReady
  /\ animReady' = TRUE
  /\ IF variant = "current" THEN init_current ELSE init_earlier
  /\ UNCHANGED <<orphaned, byObserver, transition, rafQueue, uncommitted>>
  /\ UNCHANGED <<filterVars, staggerVars, envVars, siteVars, warnings, tickVars, hoverVars, videoVars, resizeTimeout, innerWidth>>

\* Mutant: the reduced-motion check is missing.
reinitialize_unguarded ==
  /\ observed' = {}
  /\ transition' = [e \in Cards |-> "none"]
  /\ revealed' = clearVisible(revealed)
  /\ byObserver' = {}
  /\ delay' = applyStaggerDelays(variant, TRUE, display, innerWidth, delay)
  /\ rafQueue' = Append(rafQueue, "reenable")
  /\ uncommitted' = Cards
  /\ UNCHANGED <<observer, orphaned>>

\* reinitialize(): the synchronous part.  The two deferred frames are the
\* entries "reenable" and "partition" of rafQueue.
reinitialize ==
  IF prefersReducedMotion
  THEN UNCHANGED revealVars
  ELSE /\ observed' = {}
       /\ transition' = [e \in Cards |-> "none"]
       /\ revealed' = clearVisible(revealed)
       /\ byObserver' = {}
       /\ delay' = applyStaggerDelays(variant, TRUE, display, innerWidth, delay)
       /\ rafQueue' = Append(rafQueue, "reenable")
       /\ uncommitted' = Cards
       /\ UNCHANGED <<observer, orphaned>>


\* The state the deferred frames of reinitialize read and write.
RevealState ==
  [observer |-> observer, observed |-> observed, orphaned |-> orphaned,
   revealed |-> revealed, transition |-> transition, delay |-> delay,
   next |-> <<>>, threw |-> uncaught]

\* First deferred frame: re-enable transitions, make a new observer (the
\* instance held before keeps whatever is registered with it), and ask for
\* the second frame.
reenableFrame(s) ==
  IF hasObserver
  THEN [s EXCEPT !.transition = [e \in Cards |-> ""],
                 !.orphaned = s.orphaned \cup s.observed,
                 !.observed = {},
                 !.observer = "live",
                 !.next = Append(s.next, "partition")]
  ELSE [s EXCEPT !.transition = [e \in Cards |-> ""],
                 !.threw = TRUE]

\* The delays the second frame gives the elements it reveals.
partitionDelays_current(old, visibleNow) ==
  [e \in Cards |-> IF e \in visibleNow THEN rank(e, visibleNow) * STAGGER_STEP
                   ELSE old[e]]

partitionDelays_earlier(old, visibleNow) == old

\* Second deferred frame: every displayed element is revealed when it is in
\* the viewport and registered with the held observer when it is not.
partitionFrame(s) ==
  LET shown == {e \in Cards : display[e] # "none"}
      visibleNow == {e \in shown : isInViewport(e, display, innerWidth, scrollY)}
  IN [s EXCEPT !.observed = s.observed \cup (shown \ visibleNow),
               !.revealed = markVisible(s.revealed, visibleNow),
               !.delay = IF variant = "current"
                         THEN partitionDelays_current(s.delay, visibleNow)
                         ELSE partitionDelays_earlier(s.delay, visibleNow)]

RECURSIVE runCallbacks(_, _)
runCallbacks(queue, s) ==
  IF queue = <<>> THEN s
  ELSE runCallbacks(Tail(queue),
                    IF Head(queue) = "reenable" THEN reenableFrame(s)
                    ELSE partitionFrame(s))

\* One animation frame: the callbacks that were waiting run in the order they
\* were requested, the callbacks they request wait for the next frame, and
\* the frame is rendered.
frame ==
  /\ rafQueue # <<>>
  /\ LET s == runCallbacks(rafQueue, RevealState)
     IN /\ observer' = s.observer
        /\ observed' = s.observed
        /\ orphaned' = s.orphaned
        /\ revealed' = s.revealed
        /\ transition' = s.transition
        /\ delay' = s.delay
        /\ rafQueue' = s.next
        /\ uncaught' = s.threw
  /\ uncommitted' = {}
  /\ UNCHANGED byObserver
  /\ UNCHANGED <<filterVars, staggerVars, envVars, siteVars, warnings, tickVars, hoverVars, videoVars, animReady, forced,
                 resizeTimeout, scrollY, innerWidth>>

\* Mutant: the display timer also clears its card's transition delay.
displayTimerFire_clearsDelay ==
  /\ animReady
  /\ timers # <<>>
  /\ Head(timers).kind = "display"
  /\ display' = [display EXCEPT ![Head(timers).card] = Head(timers).value]
  /\ timers' = Tail(timers)
  /\ staleFired' = (staleFired \/ Len(timers) > NumCards + 1)
  /\ UNCHANGED <<filterReady, pillActive, hidden, resyncFor, pillAria,
                 itemActive, itemAria, dropdownOpen, ariaExpanded,
                 dropdownLabel, selected>>
  /\ delay' = [delay EXCEPT ![Head(timers).card] = NoDelay]
  /\ UNCHANGED <<observer, observed, orphaned, revealed, byObserver, transition,
                 rafQueue, uncommitted>>
  /\ UNCHANGED <<staggerVars, envVars, siteVars, warnings, uncaught, tickVars, hoverVars, videoVars, animReady, forced,
                 resizeTimeout, scrollY, innerWidth>>

\* The oldest pending display timer of the filter fires.
displayTimerFire ==
  /\ animReady
  /\ timers # <<>>
  /\ Head(timers).kind = "display"
  /\ display' = [display EXCEPT ![Head(timers).card] = Head(timers).value]
  /\ timers' = Tail(timers)
  /\ staleFired' = (staleFired \/ Len(timers) > NumCards + 1)
  /\ UNCHANGED <<filterReady, pillActive, hidden, resyncFor, pillAria,
                 itemActive, itemAria, dropdownOpen, ariaExpanded,
                 dropdownLabel, selected>>
  /\ UNCHANGED <<revealVars, staggerVars, envVars, siteVars, warnings, uncaught, tickVars, hoverVars, videoVars, animReady, forced,
                 resizeTimeout, scrollY, innerWidth>>

\* The resync timer of a filter application fires.
reinitTimerFire ==
  /\ animReady
  /\ timers # <<>>
  /\ Head(timers).kind = "reinit"
  /\ Len(rafQueue) < MaxRaf
  /\ timers' = Tail(timers)
  /\ resyncFor' = Tail(resyncFor)
  /\ reinitialize
  /\ UNCHANGED <<filterReady, pillActive, hidden, display, staleFired,
                 pillAria, itemActive, itemAria, dropdownOpen, ariaExpanded,
                 dropdownLabel,
                 selected>>
  /\ UNCHANGED <<staggerVars, envVars, siteVars, warnings, uncaught, tickVars, hoverVars, videoVars, animReady, forced, resizeTimeout, scrollY,
                 innerWidth>>

\* A 'filterChanged' notification reaches the document.
filterChanged ==
  /\ animReady
  /\ Len(rafQueue) < MaxRaf
  /\ reinitialize
  /\ UNCHANGED <<filterVars, staggerVars, envVars, siteVars, warnings, uncaught, tickVars, hoverVars, videoVars, animReady, forced,
                 resizeTimeout, scrollY, innerWidth>>

\* --------------------------------------- navigation (src/unnamed/part_003)
\* The navigation and page-transition modules read window.scrollY with
\* its fraction: WindowScrollY and every value derived from it are tenths
\* of a pixel.
Abs(n) == IF n < 0 THEN -n ELSE n

SCROLL_THRESHOLD == 100
HIDE_THRESHOLD == 50
Tenths(px) == px * 10
WindowScrollY == Tenths(scrollY) + subpixel

NoMenuBtn == "Menu button not found (#nav-menu-btn)"
NoMobileMenu == "Mobile menu not found (#mobile-menu)"
NoNavHeader == "Nav header not found (#nav-header)"

isMenuOpen == hasMenuBtn /\ btnActive

openMenu ==
  IF ~hasMenuBtn \/ ~hasMobileMenu
  THEN UNCHANGED menuVars
  ELSE /\ btnActive' = TRUE
       /\ menuActive' = TRUE
       /\ menuExpanded' = "true"
       /\ menuHidden' = "false"
       /\ bodyOverflow' = "hidden"

\* Mutant: closing the menu leaves the body's scrolling locked.
closeMenu_keepsLock ==
  IF ~hasMenuBtn \/ ~hasMobileMenu
  THEN UNCHANGED menuVars
  ELSE /\ btnActive' = FALSE
       /\ menuActive' = FALSE
       /\ menuExpanded' = "false"
       /\ menuHidden' = "true"
       /\ UNCHANGED bodyOverflow

closeMenu ==
  IF ~hasMenuBtn \/ ~hasMobileMenu
  THEN UNCHANGED menuVars
  ELSE /\ btnActive' = FALSE
       /\ menuActive' = FALSE
       /\ menuExpanded' = "false"
       /\ menuHidden' = "true"
       /\ bodyOverflow' = ""

toggleMenu == IF isMenuOpen THEN closeMenu ELSE openMenu

\* handleScroll: the header's classes from the position read now and the
\* position handled before.
handleScroll ==
  /\ IF hasNavHeader
     THEN /\ navScrolled' = (WindowScrollY > Tenths(SCROLL_THRESHOLD))
          /\ navHidden' =
               IF Abs(WindowScrollY - lastScrollY) > Tenths(HIDE_THRESHOLD)
               THEN /\ WindowScrollY > lastScrollY
                    /\ WindowScrollY > Tenths(SCROLL_THRESHOLD)
               ELSE navHidden
     ELSE UNCHANGED <<navScrolled, navHidden>>
  /\ lastScrollY' = WindowScrollY
  /\ ticking' = FALSE

requestTick ==
  /\ navRaf' = IF ticking THEN navRaf ELSE navRaf + 1
  /\ ticking' = TRUE

\* The menu's listeners are attached only when both elements are found,
\* the scroll listener only when the header is.
menuAttached == navReady /\ hasMenuBtn /\ hasMobileMenu
scrollAttached == navReady /\ hasNavHeader

\* What attachMenuHandlers and attachScrollHandler warn about.
navWarnings ==
  (IF ~hasMenuBtn THEN {NoMenuBtn}
   ELSE IF ~hasMobileMenu THEN {NoMobileMenu} ELSE {})
    \cup (IF hasNavHeader THEN {} ELSE {NoNavHeader})

\* init of the navigation module: cacheElements, attachMenuHandlers, then
\* attachScrollHandler with its first handleScroll.
navInit ==
  /\ ~navReady
  /\ navReady' = TRUE
  /\ warnings' = warnings \cup navWarnings
  /\ IF hasMenuBtn /\ hasMobileMenu
     THEN /\ menuExpanded' = "false"
          /\ menuHidden' = "true"
          /\ UNCHANGED <<btnActive, menuActive, bodyOverflow>>
     ELSE UNCHANGED menuVars
  /\ IF hasNavHeader
     THEN handleScroll /\ UNCHANGED navRaf
     ELSE UNCHANGED headerVars
  /\ UNCHANGED <<filterVars, revealVars, staggerVars, envVars, markupVars,
                 centerVars, themeVars, cardHandlers, uncaught, hoverVars,
                 videoVars, tickVars, animReady, forced, resizeTimeout,
                 scrollY, innerWidth, navMarkup, pagesVars>>

\* The frame requestTick asked for.
navFrame ==
  /\ navRaf > 0
  /\ navRaf' = navRaf - 1
  /\ handleScroll
  /\ UNCHANGED <<filterVars, revealVars, staggerVars, envVars, markupVars,
                 centerVars, themeVars, cardHandlers, warnings, uncaught,
                 hoverVars, videoVars, tickVars, animReady, forced,
                 resizeTimeout, scrollY, innerWidth, navReady, navMarkup,
                 menuVars, pagesVars>>

menuFrame == <<filterVars, revealVars, staggerVars, envVars, markupVars,
               centerVars, themeVars, cardHandlers, warnings, uncaught,
               hoverVars, videoVars, tickVars, animReady, forced,
               resizeTimeout, scrollY, innerWidth, navReady, navMarkup,
               headerVars, pagesVars>>

\* A click on the menu button.
menuBtnClick ==
  /\ menuAttached
  /\ toggleMenu
  /\ UNCHANGED menuFrame

\* A click on one of the menu's links.
mobileLinkClick ==
  /\ menuAttached
  /\ closeMenu
  /\ UNCHANGED menuFrame

\* The Escape key, as the navigation module's keydown listener handles it.
menuEscape ==
  /\ menuAttached
  /\ IF isMenuOpen THEN closeMenu ELSE UNCHANGED menuVars
  /\ UNCHANGED menuFrame

\* The scroll listener of the page-transition module's newest revision:
\* the timer that saves the position restarts.
saveScrollListener ==
  IF pageReady /\ pageScript = "part_000"
  THEN scrollSaveTimer' = TRUE
  ELSE UNCHANGED scrollSaveTimer

\* requestCenterTick: the scroll and resize listener the card module
\* attaches on a device without hover asks for one frame.
\* Mutant: a frame is requested for every event.
requestCenterTick_everyEvent ==
  IF cardHandlers = "center"
  THEN /\ isCenterTicking' = TRUE
       /\ centerRaf' = IF centerRaf < 2 THEN centerRaf + 1 ELSE centerRaf
       /\ centerEvents' = IF centerEvents < MaxCenterEvents
                          THEN centerEvents + 1 ELSE centerEvents
  ELSE UNCHANGED tickVars

\* The scroll and resize listener of a page without hover: one frame is
\* requested unless one is pending already.
requestCenterTick ==
  IF cardHandlers = "center"
  THEN /\ isCenterTicking' = TRUE
       /\ centerRaf' = IF isCenterTicking THEN centerRaf ELSE centerRaf + 1
       /\ centerEvents' = IF centerEvents < MaxCenterEvents
                          THEN centerEvents + 1 ELSE centerEvents
  ELSE UNCHANGED tickVars

\* The scroll listeners of the card and navigation modules.
siteScrollListeners ==
  /\ requestCenterTick
  /\ IF scrollAttached THEN requestTick ELSE UNCHANGED <<ticking, navRaf>>

\* A scroll event with the window at y pixels and f tenths: every scroll
\* listener of the page runs.
scrollBy(y, f) ==
  /\ <<y, f>> # <<scrollY, subpixel>>
  /\ scrollY' = y
  /\ subpixel' = f
  /\ siteScrollListeners
  /\ saveScrollListener
  /\ UNCHANGED <<filterVars, revealVars, staggerVars, envVars, markupVars,
                 centerVars, themeVars, cardHandlers, warnings, uncaught,
                 hoverVars, videoVars, animReady, forced, resizeTimeout,
                 innerWidth, navReady, navMarkup, navScrolled, navHidden,
                 lastScrollY, menuVars, pageScript, pageReady, currentPath,
                 lastPagePath, savedScroll, pageTransitioning, pendingNav,
                 loadTimer, initScrollTo, reloadPending>>

scroll(y) == scrollBy(y, 0)

\* ------ page transitions (part_000, part_002, js/transitions.js 1-75)
\* Three revisions of the module are in the repository; pageScript is the
\* one the page loads.  js/transitions.js is the oldest, part_000 the
\* newest.
PageScripts == {"transitions.js", "part_002", "part_000"}
TRANSITION_DURATION == 600

\* A link by what the click listener reads of it.  kind is how the href
\* attribute begins: "none" for a missing or empty href, "relative" for
\* one like "about.html", "://" for an absolute URL with a scheme.  hash
\* says whether the href contains '#', path is the pathname it resolves to.
HrefKinds == {"none", "#", "mailto:", "tel:", "/", ".", "relative", "://"}
Links ==
  {l \in [kind : HrefKinds, hash : BOOLEAN, path : Paths, blank : BOOLEAN,
          download : BOOLEAN, logo : BOOLEAN] :
     /\ l.kind = "#" => l.hash
     /\ l.kind = "none" => ~l.hash}

ignoredLink(l) ==
  \/ l.kind = "none"
  \/ l.kind = "#"
  \/ l.kind = "mailto:"
  \/ l.kind = "tel:"
  \/ l.blank
  \/ l.download

isInternal(l) == l.kind = "/" \/ l.kind = "." \/ ~(l.kind = "://")

\* What the click listener of the loaded revision does with the link.
clickOutcome(l) ==
  IF ignoredLink(l) \/ ~isInternal(l) THEN "none"
  ELSE IF pageScript = "transitions.js" THEN "animate"
  ELSE IF l.path = currentPath /\ l.hash THEN "none"
  ELSE IF pageScript = "part_002" THEN "animate"
  ELSE IF l.path = currentPath /\ l.logo THEN "top"
  ELSE IF l.path = currentPath THEN "reload"
  ELSE "animate"

\* The navigation a click schedules.
Navigation(l) ==
  [path |-> l.path, hash |-> l.hash, after |-> TRANSITION_DURATION]

\* A storage key without a value, a scrollTo that was not called.
NoPosition == -1

\* parseInt(s, 10) of a stored position: its whole pixels.
parseInt(tenths) == tenths \div 10

\* Mutant: a saved position is restored wherever the visitor comes from.
restoreTarget_anySaved ==
  IF savedScroll[currentPath] # NoPosition
  THEN parseInt(savedScroll[currentPath])
  ELSE IF lastPagePath = currentPath THEN NoPosition ELSE 0

\* The y init passes to window.scrollTo, NoPosition when it calls none.
restoreTarget ==
  IF lastPagePath = currentPath
  THEN IF savedScroll[currentPath] # NoPosition
       THEN parseInt(savedScroll[currentPath])
       ELSE NoPosition
  ELSE 0

\* What the page-transition actions leave alone outside their module.
pageFrame == <<filterVars, revealVars, staggerVars, envVars, markupVars,
               centerVars, themeVars, cardHandlers, warnings, uncaught,
               hoverVars, videoVars, animReady, forced, resizeTimeout,
               innerWidth, navReady, navMarkup, navScrolled, navHidden,
               lastScrollY, menuVars>>

\* init of the loaded revision.  The newest one restores or resets the
\* scroll position, records the path and listens to scroll events; the
\* scroll event of its own scrollTo reaches the listeners afterwards.
\* The oldest one removes the class 50 ms after DOMContentLoaded.
pageInit ==
  /\ ~pageReady
  /\ pageReady' = TRUE
  /\ IF pageScript = "part_000"
     THEN /\ initScrollTo' = restoreTarget
          /\ lastPagePath' = currentPath
          /\ UNCHANGED loadTimer
          /\ IF restoreTarget = NoPosition \/ WindowScrollY = Tenths(restoreTarget)
             THEN UNCHANGED <<scrollY, subpixel, scrollSaveTimer, tickVars,
                              ticking, navRaf>>
             ELSE /\ scrollY' = restoreTarget
                  /\ subpixel' = 0
                  /\ scrollSaveTimer' = TRUE
                  /\ siteScrollListeners
     ELSE /\ loadTimer' = (pageScript = "transitions.js")
          /\ UNCHANGED <<initScrollTo, lastPagePath, scrollY, subpixel,
                         scrollSaveTimer, tickVars, ticking, navRaf>>
  /\ UNCHANGED <<pageScript, currentPath, savedScroll, pageTransitioning,
                 pendingNav, reloadPending, pageFrame>>

\* The timer of the scroll listener: the position is stored under the path.
scrollSaveFire ==
  /\ scrollSaveTimer
  /\ scrollSaveTimer' = FALSE
  /\ savedScroll' = [savedScroll EXCEPT ![currentPath] = WindowScrollY]
  /\ UNCHANGED <<pageScript, pageReady, currentPath, lastPagePath, subpixel,
                 pageTransitioning, pendingNav, loadTimer, initScrollTo,
                 reloadPending, scrollY, tickVars, ticking, navRaf, pageFrame>>

\* A click on a link.  A click the listener leaves to the browser changes
\* nothing of the page; the logo of the current page scrolls to the top.
linkClick(l) ==
  /\ pageReady
  /\ CASE clickOutcome(l) = "animate" ->
            /\ pageTransitioning' = TRUE
            /\ pendingNav' = pendingNav \cup {Navigation(l)}
            /\ UNCHANGED <<pageScript, pageReady, currentPath, lastPagePath,
                           savedScroll, subpixel, scrollSaveTimer, loadTimer,
                           initScrollTo, reloadPending, scrollY, tickVars,
                           ticking, navRaf, pageFrame>>
       [] clickOutcome(l) = "reload" ->
            /\ reloadPending' = TRUE
            /\ UNCHANGED <<pageScript, pageReady, currentPath, lastPagePath,
                           savedScroll, subpixel, scrollSaveTimer,
                           pageTransitioning, pendingNav, loadTimer,
                           initScrollTo, scrollY, tickVars, ticking, navRaf,
                           pageFrame>>
       [] clickOutcome(l) = "top" ->
            IF WindowScrollY = 0 THEN UNCHANGED vars ELSE scrollBy(0, 0)
       [] OTHER -> UNCHANGED vars

\* A document of the site loads at path p: the session storage is kept,
\* the timers of the document before are gone, the body is as served and
\* no script has run.
loadDocument(p) ==
  /\ currentPath' = p
  /\ pageReady' = FALSE
  /\ pendingNav' = {}
  /\ scrollSaveTimer' = FALSE
  /\ loadTimer' = FALSE
  /\ reloadPending' = FALSE
  /\ initScrollTo' = NoPosition
  /\ pageTransitioning' \in BOOLEAN
  /\ scrollY' = 0
  /\ subpixel' = 0
  /\ UNCHANGED <<pageScript, lastPagePath, savedScroll, tickVars, ticking,
                 navRaf, pageFrame>>

\* The timer of a click: window.location.href = href.  An href of the
\* current page with a fragment moves within the document.
navTimerFire(n) ==
  /\ n \in pendingNav
  /\ IF n.path = currentPath /\ n.hash
     THEN /\ pendingNav' = pendingNav \ {n}
          /\ UNCHANGED <<pageScript, pageReady, currentPath, lastPagePath,
                         savedScroll, subpixel, scrollSaveTimer,
                         pageTransitioning, loadTimer, initScrollTo,
                         reloadPending, scrollY, tickVars, ticking, navRaf,
                         pageFrame>>
     ELSE loadDocument(n.path)

\* window.location.reload() takes effect.
reloadFire ==
  /\ reloadPending
  /\ loadDocument(currentPath)

\* The visitor reloads the page.
userReload == loadDocument(currentPath)

\* The 50 ms timer of the oldest revision.
loadTimerFire ==
  /\ loadTimer
  /\ loadTimer' = FALSE
  /\ pageTransitioning' = FALSE
  /\ UNCHANGED <<pageScript, pageReady, currentPath, lastPagePath,
                 savedScroll, subpixel, scrollSaveTimer, pendingNav,
                 initScrollTo, reloadPending, scrollY, tickVars, ticking,
                 navRaf, pageFrame>>

\* A pageshow event, of a load or of a return through the history.
pageshow(persisted) ==
  /\ pageReady
  /\ pageTransitioning' =
       IF pageScript = "transitions.js" /\ ~persisted
       THEN pageTransitioning ELSE FALSE
  /\ UNCHANGED <<pageScript, pageReady, currentPath, lastPagePath,
                 savedScroll, subpixel, scrollSaveTimer, pendingNav,
                 loadTimer, initScrollTo, reloadPending, scrollY, tickVars,
                 ticking, navRaf, pageFrame>>

\* A resize event: the window has width w (the same as before when only
\* its height changed) and the debounce restarts.
resize(w) ==
  /\ innerWidth' = w
  /\ resizeTimeout' = TRUE
  /\ requestCenterTick
  /\ UNCHANGED <<filterVars, revealVars, staggerVars, envVars, siteVars, warnings, uncaught, hoverVars, videoVars, animReady, forced,
                 scrollY>>

handleResize ==
  /\ resizeTimeout
  /\ resizeTimeout' = FALSE
  /\ delay' = applyStaggerDelays(variant, TRUE, display, innerWidth, delay)
  /\ UNCHANGED <<observer, observed, orphaned, revealed, byObserver, transition,
                 rafQueue, uncommitted>>
  /\ UNCHANGED <<filterVars, staggerVars, envVars, siteVars, warnings, uncaught, tickVars, hoverVars, videoVars, animReady, forced, scrollY,
                 innerWidth>>

\* ------------------------------------------------- pointer parallax engine
\* js/card-hover.js on a device that supports hover.  Offsets are kept in
\* units of 1/PxScale px (1e-8 px); a product that is not a whole number of
\* units is rounded to the nearest one, as a double rounds to the nearest
\* representable value.
MaxMoves == 2            \* pointer moves within one hover

MAX_PARALLAX_OFFSET == 5
LerpPercent == 15        \* lerpFactor = 0.15
PxScale == 100000000
Epsilon == 1000000       \* 0.01 px
CardWidth == 400

pageVars == <<filterVars, revealVars, staggerVars, envVars, siteVars, warnings, uncaught, tickVars, videoVars, animReady,
              forced, resizeTimeout, scrollY, innerWidth>>

\* The image layer without --parallax-x / --parallax-y.
Neutral == [set |-> FALSE, x |-> 0, y |-> 0]

\* n / d to the nearest whole number, for d > 0.
roundDiv(n, d) ==
  IF n >= 0 THEN (2 * n + d) \div (2 * d) ELSE -((2 * (-n) + d) \div (2 * d))

\* The session handleMouseEnter stores; rafId 0 is null.
newSession ==
  [rafId |-> 0, targetX |-> 0, targetY |-> 0, currentX |-> 0, currentY |-> 0]

\* activeCards.set(card, session) and activeCards.delete(card)
mapSet(map, c, session) ==
  [d \in (DOMAIN map) \cup {c} |-> IF d = c THEN session ELSE map[d]]

mapDelete(map, c) == [d \in (DOMAIN map) \ {c} |-> map[d]]

\* The handle requestAnimationFrame returns: one no pending callback and no
\* session holds.
freshId(pending, map) ==
  CHOOSE n \in 1..(Cardinality(pending) + Cardinality(DOMAIN map) + 1) :
    /\ \A r \in pending : r.id # n
    /\ \A d \in DOMAIN map : map[d].rafId # n

applyParallax(offsetX, offsetY) == [set |-> TRUE, x |-> offsetX, y |-> offsetY]

\* p percent of d, to the nearest unit.
percent(d, p) ==
  IF d >= 0 THEN (d \div 100) * p + roundDiv((d % 100) * p, 100)
  ELSE -(((-d) \div 100) * p + roundDiv(((-d) % 100) * p, 100))

\* Mutant: the step goes half the remaining distance.
lerp_half(current, target) == current + percent(target - current, 50)

\* current += (target - current) * lerpFactor
lerp(current, target) == current + percent(target - current, LerpPercent)

\* The target of one axis: the pointer's offset from the card's centre as a
\* fraction of the half size, times the maximum offset, inverted.
parallaxTarget(mouse, size) ==
  LET center == size \div 2
      full == MAX_PARALLAX_OFFSET * PxScale
  IN -((mouse - center) * (full \div center)
         + roundDiv((mouse - center) * (full % center), center))

\* animateParallax(card) on the state s = [map, css, pending]: pending are
\* the callbacks waiting for the next frame.
animateParallax(c, s) ==
  IF c \notin DOMAIN s.map THEN s
  ELSE LET state == s.map[c]
           x == lerp(state.currentX, state.targetX)
           y == lerp(state.currentY, state.targetY)
           deltaX == Abs(state.targetX - x)
           deltaY == Abs(state.targetY - y)
           id == freshId(s.pending, s.map)
       IN IF deltaX > Epsilon \/ deltaY > Epsilon
          THEN [map |-> mapSet(s.map, c,
                          [state EXCEPT !.currentX = x, !.currentY = y,
                                        !.rafId = id]),
                css |-> [s.css EXCEPT ![c] = applyParallax(x, y)],
                pending |-> s.pending \cup {[card |-> c, id |-> id]}]
          ELSE [map |-> mapSet(s.map, c,
                          [state EXCEPT !.currentX = x, !.currentY = y,
                                        !.rafId = 0]),
                css |-> [s.css EXCEPT ![c] =
                           applyParallax(state.targetX, state.targetY)],
                pending |-> s.pending]

\* The callbacks of one frame, in the order of their handles.
RECURSIVE runParallax(_, _)
runParallax(callbacks, s) ==
  IF callbacks = {} THEN s
  ELSE LET r == CHOOSE q \in callbacks : \A o \in callbacks : q.id <= o.id
       IN runParallax(callbacks \ {r}, animateParallax(r.card, s))

handleMouseEnter(c) ==
  /\ hovered' = [hovered EXCEPT ![c] = TRUE]
  /\ activeCards' = mapSet(activeCards, c, newSession)
  /\ UNCHANGED <<parallax, parallaxRaf>>

\* Mutant: a pending step is not cancelled.
handleMouseLeave_noCancel(c) ==
  /\ hovered' = [hovered EXCEPT ![c] = FALSE]
  /\ parallaxRaf' = parallaxRaf
  /\ parallax' = [parallax EXCEPT ![c] = Neutral]
  /\ activeCards' = mapDelete(activeCards, c)

handleMouseLeave(c) ==
  /\ hovered' = [hovered EXCEPT ![c] = FALSE]
  /\ parallaxRaf' =
       IF c \in DOMAIN activeCards /\ activeCards[c].rafId # 0
       THEN {r \in parallaxRaf : r.id # activeCards[c].rafId}
       ELSE parallaxRaf
  /\ parallax' = [parallax EXCEPT ![c] = Neutral]
  /\ activeCards' = mapDelete(activeCards, c)

\* Mutant: a step is requested on every move.
handleMouseMove_always(c, mouseX, mouseY) ==
  IF c \notin DOMAIN activeCards
  THEN UNCHANGED <<activeCards, parallaxRaf>>
  ELSE LET id == freshId(parallaxRaf, activeCards)
           state == [activeCards[c] EXCEPT
                       !.targetX = parallaxTarget(mouseX, CardWidth),
                       !.targetY = parallaxTarget(mouseY, CardHeight)]
       IN /\ activeCards' = mapSet(activeCards, c, [state EXCEPT !.rafId = id])
          /\ parallaxRaf' = parallaxRaf \cup {[card |-> c, id |-> id]}

\* Mutant: a move on a card without a session opens one.
handleMouseMove_opens(c, mouseX, mouseY) ==
  LET id == freshId(parallaxRaf, activeCards)
      old == IF c \in DOMAIN activeCards THEN activeCards[c] ELSE newSession
      state == [old EXCEPT !.targetX = parallaxTarget(mouseX, CardWidth),
                           !.targetY = parallaxTarget(mouseY, CardHeight)]
  IN IF state.rafId = 0
     THEN /\ activeCards' = mapSet(activeCards, c, [state EXCEPT !.rafId = id])
          /\ parallaxRaf' = parallaxRaf \cup {[card |-> c, id |-> id]}
     ELSE /\ activeCards' = mapSet(activeCards, c, state)
          /\ UNCHANGED parallaxRaf

\* mouseX, mouseY: the pointer relative to the card's box.
handleMouseMove(c, mouseX, mouseY) ==
  IF c \notin DOMAIN activeCards
  THEN UNCHANGED <<activeCards, parallaxRaf>>
  ELSE LET id == freshId(parallaxRaf, activeCards)
           state == [activeCards[c] EXCEPT
                       !.targetX = parallaxTarget(mouseX, CardWidth),
                       !.targetY = parallaxTarget(mouseY, CardHeight)]
       IN IF state.rafId = 0
          THEN /\ activeCards' = mapSet(activeCards, c,
                                        [state EXCEPT !.rafId = id])
               /\ parallaxRaf' = parallaxRaf \cup {[card |-> c, id |-> id]}
          ELSE /\ activeCards' = mapSet(activeCards, c, state)
               /\ UNCHANGED parallaxRaf

\* The pointer comes over card c.  The browser reports an element entered
\* only when the pointer was not over it, and left only when it was.
mouseenter(c) ==
  /\ cardHandlers = "hover" /\ cardScript = "card-hover.js"
  /\ pointerOver = 0
  /\ pointerOver' = c
  /\ handleMouseEnter(c)
  /\ moves' = 0
  /\ stepsTaken' = [stepsTaken EXCEPT ![c] = 0]
  /\ UNCHANGED cancelledStep
  /\ UNCHANGED pageVars

mouseleave(c) ==
  /\ cardHandlers = "hover" /\ cardScript = "card-hover.js"
  /\ pointerOver = c
  /\ pointerOver' = 0
  /\ handleMouseLeave(c)
  /\ cancelledStep' = IF \E r \in parallaxRaf : r.card = c THEN c ELSE 0
  /\ moves' = 0
  /\ stepsTaken' = [stepsTaken EXCEPT ![c] = 0]
  /\ UNCHANGED pageVars

mousemove(c, mouseX, mouseY) ==
  /\ cardHandlers = "hover" /\ cardScript = "card-hover.js"
  /\ pointerOver = c
  /\ moves < MaxMoves
  /\ moves' = moves + 1
  /\ handleMouseMove(c, mouseX, mouseY)
  /\ stepsTaken' =
       IF /\ c \in DOMAIN activeCards
          /\ activeCards'[c].targetX = activeCards[c].targetX
          /\ activeCards'[c].targetY = activeCards[c].targetY
       THEN stepsTaken
       ELSE [stepsTaken EXCEPT ![c] = 0]
  /\ UNCHANGED <<pointerOver, hovered, parallax, cancelledStep>>
  /\ UNCHANGED pageVars

\* One animation frame of the hover module: every pending step runs.
parallaxFrame ==
  /\ parallaxRaf # {}
  /\ LET s == runParallax(parallaxRaf,
                          [map |-> activeCards, css |-> parallax,
                           pending |-> {}])
     IN /\ activeCards' = s.map
        /\ parallax' = s.css
        /\ parallaxRaf' = s.pending
  /\ stepsTaken' = [c \in Cards |->
                      IF \E r \in parallaxRaf : r.card = c
                      THEN stepsTaken[c] + 1 ELSE stepsTaken[c]]
  /\ UNCHANGED <<pointerOver, hovered, moves, cancelledStep>>
  /\ UNCHANGED pageVars

\* ------------------------------------------------------ card video on hover
\* The card module of js/transitions.js on a device that supports hover.
MaxThemeTimers == 4      \* pending timers of triggerTransition
MaxListeners == 2        \* 'pause' listeners waiting on one video

gridVars == <<filterVars, revealVars, staggerVars, envVars, siteVars, warnings, uncaught, tickVars, animReady, forced,
              resizeTimeout, scrollY, innerWidth>>
parallaxVars == <<activeCards, parallax, parallaxRaf, stepsTaken, moves,
                  cancelledStep>>

\* getCardVideo(card): every other card holds a .card-video.
getCardVideo(c) == c % 2 = 1

\* Mutant: the promise play() returns gets no rejection handler.
playCardVideo_noCatch(c, allowed) ==
  /\ stopRaf' = [stopRaf EXCEPT ![c] = FALSE]
  /\ IF allowed
     THEN /\ videoPaused' = [videoPaused EXCEPT ![c] = FALSE]
          /\ playPending' = [playPending EXCEPT ![c] = TRUE]
          /\ lastPlay' = [lastPlay EXCEPT ![c] = "pending"]
          /\ UNCHANGED unhandled
     ELSE /\ lastPlay' = [lastPlay EXCEPT ![c] = "blocked"]
          /\ unhandled' = TRUE
          /\ UNCHANGED <<videoPaused, playPending>>
  /\ UNCHANGED <<videoTime, pauseListeners, pauseEvents>>

\* playCardVideo(card): a pending stop is cancelled and play() is called.
\* When the browser allows it the video leaves the paused state and the
\* promise stays pending until playback starts; when it does not (autoplay
\* policy) the promise is rejected and the video stays as it was.  The
\* rejection reaches the empty handler catch() attached.
playCardVideo(c, allowed) ==
  /\ stopRaf' = [stopRaf EXCEPT ![c] = FALSE]
  /\ IF allowed
     THEN /\ videoPaused' = [videoPaused EXCEPT ![c] = FALSE]
          /\ playPending' = [playPending EXCEPT ![c] = TRUE]
          /\ lastPlay' = [lastPlay EXCEPT ![c] = "pending"]
     ELSE /\ lastPlay' = [lastPlay EXCEPT ![c] = "blocked"]
          /\ UNCHANGED <<videoPaused, playPending>>
  /\ UNCHANGED <<videoTime, pauseListeners, pauseEvents, unhandled>>

\* Mutant: the video is paused and rewound in the leave handler itself.
stopCardVideo_now(c) ==
  /\ videoPaused' = [videoPaused EXCEPT ![c] = TRUE]
  /\ videoTime' = [videoTime EXCEPT ![c] = 0]
  /\ UNCHANGED <<stopRaf, pauseListeners, pauseEvents, playPending, lastPlay,
                 unhandled>>

\* stopCardVideo(card): doStop is deferred by one frame.
stopCardVideo(c) ==
  /\ stopRaf' = [stopRaf EXCEPT ![c] = TRUE]
  /\ UNCHANGED <<videoPaused, videoTime, pauseListeners, pauseEvents,
                 playPending, lastPlay, unhandled>>

\* mouseenter on a card: handleMouseEnter of js/transitions.js.
videoMouseEnter(c) ==
  /\ cardHandlers = "hover" /\ cardScript = "transitions.js"
  /\ pointerOver = 0
  /\ pointerOver' = c
  /\ hovered' = [hovered EXCEPT ![c] = TRUE]
  /\ IF getCardVideo(c)
     THEN \E allowed \in BOOLEAN : playCardVideo(c, allowed)
     ELSE UNCHANGED videoVars
  /\ UNCHANGED <<gridVars, parallaxVars>>

\* mouseleave on a card: handleMouseLeave of js/transitions.js.
videoMouseLeave(c) ==
  /\ cardHandlers = "hover" /\ cardScript = "transitions.js"
  /\ pointerOver = c
  /\ pauseListeners[c] < MaxListeners
  /\ pointerOver' = 0
  /\ hovered' = [hovered EXCEPT ![c] = FALSE]
  /\ IF getCardVideo(c) THEN stopCardVideo(c) ELSE UNCHANGED videoVars
  /\ UNCHANGED <<gridVars, parallaxVars>>

\* One animation frame: doStop runs for every video whose stop is pending.
\* It adds a once-listener for 'pause' and calls pause(), which on a video
\* that is not paused pauses it, queues the 'pause' event and rejects a
\* play() promise that is still pending; on a paused video it does nothing.
\* A queued 'pause' event is dispatched before the next frame.
videoFrame ==
  LET stopping == {c \in Cards : stopRaf[c]}
      pausing == {c \in stopping : ~videoPaused[c]}
  IN /\ stopping # {}
     /\ \A c \in stopping : ~pauseEvents[c]
     /\ stopRaf' = [c \in Cards |-> FALSE]
     /\ pauseListeners' = [c \in Cards |->
                             IF c \in stopping THEN pauseListeners[c] + 1
                             ELSE pauseListeners[c]]
     /\ videoPaused' = [c \in Cards |-> videoPaused[c] \/ c \in pausing]
     /\ pauseEvents' = [c \in Cards |-> pauseEvents[c] \/ c \in pausing]
     /\ playPending' = [c \in Cards |-> playPending[c] /\ c \notin pausing]
     /\ lastPlay' = [c \in Cards |->
                       IF c \in pausing /\ playPending[c] THEN "aborted"
                       ELSE lastPlay[c]]
     /\ UNCHANGED <<videoTime, unhandled>>
     /\ UNCHANGED <<pointerOver, hovered, gridVars, parallaxVars>>

\* The queued 'pause' event of card c's video is dispatched: every
\* onPaused listener runs once and is removed.
pauseEventFire(c) ==
  /\ pauseEvents[c]
  /\ pauseEvents' = [pauseEvents EXCEPT ![c] = FALSE]
  /\ videoTime' = [videoTime EXCEPT
                     ![c] = IF pauseListeners[c] > 0 THEN 0 ELSE videoTime[c]]
  /\ pauseListeners' = [pauseListeners EXCEPT ![c] = 0]
  /\ UNCHANGED <<videoPaused, stopRaf, playPending, lastPlay, unhandled>>
  /\ UNCHANGED <<pointerOver, hovered, gridVars, parallaxVars>>

\* Playback of card c's video starts: its play() promise resolves.
playStarts(c) ==
  /\ playPending[c] /\ ~videoPaused[c]
  /\ playPending' = [playPending EXCEPT ![c] = FALSE]
  /\ lastPlay' = [lastPlay EXCEPT ![c] = "started"]
  /\ UNCHANGED <<videoPaused, videoTime, stopRaf, pauseListeners, pauseEvents,
                 unhandled>>
  /\ UNCHANGED <<pointerOver, hovered, gridVars, parallaxVars>>

\* Playback advances past the start.
videoAdvance(c) ==
  /\ ~videoPaused[c] /\ ~playPending[c] /\ videoTime[c] = 0
  /\ videoTime' = [videoTime EXCEPT ![c] = 1]
  /\ UNCHANGED <<videoPaused, stopRaf, pauseListeners, pauseEvents,
                 playPending, lastPlay, unhandled>>
  /\ UNCHANGED <<pointerOver, hovered, gridVars, parallaxVars>>

\* ------------------------------------------- card module: init, no hover
\* init of the card module (js/card-hover.js and the card module of
\* js/transitions.js are the same here), and what the module of
\* js/transitions.js does on a device without hover: the card nearest the
\* viewport's centre is highlighted and, every second, flipped; a card with
\* a video plays it instead.
NoCards ==
  [by |-> "card-hover", text |-> "No project cards found (.project-card)"]

\* |viewportCenter - cardCenter| of card c.
distanceToCenter(c) ==
  LET rect == rectOf(c, display, innerWidth, scrollY)
  IN Abs(InnerHeight \div 2 - (rect.top + (rect.bottom - rect.top) \div 2))

\* The card the loop over projectCards ends with: the first of the
\* nearest ones.
closestCard ==
  CHOOSE c \in Cards :
    \A d \in Cards :
      \/ distanceToCenter(c) < distanceToCenter(d)
      \/ distanceToCenter(c) = distanceToCenter(d) /\ c <= d

\* The handle setInterval returns: one that is not in use, where `used`
\* holds the active intervals and the one just cleared.
freshInterval(used) ==
  CHOOSE n \in 1..(Cardinality(used) + 1) : n \notin used

\* stopCardVideo(old) of clearCenteredFlip followed by playCardVideo(new)
\* of setCenteredCard, each only for a card that holds a video.
centerVideo(old, new, allowed) ==
  LET stopOld == old # 0 /\ getCardVideo(old)
      playNew == getCardVideo(new)
  IN /\ stopRaf' = [c \in Cards |->
                      IF c = new /\ playNew THEN FALSE
                      ELSE IF c = old /\ stopOld THEN TRUE
                      ELSE stopRaf[c]]
     /\ IF playNew /\ allowed
        THEN /\ videoPaused' = [videoPaused EXCEPT ![new] = FALSE]
             /\ playPending' = [playPending EXCEPT ![new] = TRUE]
             /\ lastPlay' = [lastPlay EXCEPT ![new] = "pending"]
        ELSE IF playNew
        THEN /\ lastPlay' = [lastPlay EXCEPT ![new] = "blocked"]
             /\ UNCHANGED <<videoPaused, playPending>>
        ELSE UNCHANGED <<videoPaused, playPending, lastPlay>>
     /\ UNCHANGED <<videoTime, pauseListeners, pauseEvents, unhandled>>

\* Mutant: the interval of the card that was centered is left running.
setCenteredCard_noClear(card, allowed) ==
  /\ flipped' = [c \in Cards |-> flipped[c] /\ c # centeredCard]
  /\ isFlipped' = FALSE
  /\ centeredCard' = card
  /\ centerVideo(centeredCard, card, allowed)
  /\ IF getCardVideo(card)
     THEN UNCHANGED <<intervals, flipIntervalId>>
     ELSE LET id == freshInterval(intervals)
          IN /\ intervals' = intervals \cup {id}
             /\ flipIntervalId' = id

\* setCenteredCard(card) for a card: clearCenteredFlip() cancels the
\* interval, stops the video of the card centered so far and takes
\* 'is-flipped' off it; then the new card's video plays or, without a
\* video, a new interval starts.
setCenteredCard(card, allowed) ==
  LET cleared == intervals \ {flipIntervalId}
  IN /\ flipped' = [c \in Cards |-> flipped[c] /\ c # centeredCard]
     /\ isFlipped' = FALSE
     /\ centeredCard' = card
     /\ centerVideo(centeredCard, card, allowed)
     /\ IF getCardVideo(card)
        THEN /\ intervals' = cleared
             /\ flipIntervalId' = 0
        ELSE LET id == freshInterval(intervals)
             IN /\ intervals' = cleared \cup {id}
                /\ flipIntervalId' = id

\* updateCenteredCard(): 'is-centered' goes to the nearest card alone; the
\* module of js/transitions.js also moves centeredCard when it changed.
updateCenteredCard(allowed) ==
  /\ centered' = [c \in Cards |-> c = closestCard]
  /\ IF cardScript = "transitions.js" /\ closestCard # centeredCard
     THEN setCenteredCard(closestCard, allowed)
     ELSE UNCHANGED <<centeredCard, flipIntervalId, intervals, isFlipped,
                      flipped, videoVars>>

\* init: without cards, warn and stop; without hover, highlight the
\* centered card now and on every scroll and resize; otherwise attach the
\* hover handlers.
cardInit ==
  /\ cardHandlers = "none"
  /\ NoCards \notin warnings
  /\ IF pageCards = {}
     THEN /\ warnings' = warnings \cup {NoCards}
          /\ UNCHANGED <<cardHandlers, centerVars, videoVars>>
     ELSE IF ~supportsHover
     THEN /\ cardHandlers' = "center"
          /\ \E allowed \in BOOLEAN : updateCenteredCard(allowed)
          /\ UNCHANGED warnings
     ELSE /\ cardHandlers' = "hover"
          /\ UNCHANGED <<warnings, centerVars, videoVars>>
  /\ UNCHANGED <<filterVars, revealVars, staggerVars, envVars, hoverVars,
                 markupVars, shellVars, themeVars, uncaught, tickVars, animReady,
                 forced, resizeTimeout, scrollY, innerWidth>>

\* The frame requestCenterTick asked for.
centerFrame ==
  /\ centerRaf > 0
  /\ centerRaf' = centerRaf - 1
  /\ centerEvents' = 0
  /\ isCenterTicking' = FALSE
  /\ (centeredCard # 0 /\ getCardVideo(centeredCard)
        /\ closestCard # centeredCard)
       => pauseListeners[centeredCard] < MaxListeners
  /\ \E allowed \in BOOLEAN : updateCenteredCard(allowed)
  /\ UNCHANGED <<filterVars, revealVars, staggerVars, envVars, hoverVars,
                 markupVars, shellVars, themeVars, cardHandlers, warnings, uncaught,
                 animReady, forced, resizeTimeout, scrollY, innerWidth>>

\* The flip interval ticks: its callback flips the card centeredCard names
\* when it runs.
flipTick ==
  /\ intervals # {}
  /\ isFlipped' = ~isFlipped
  /\ flipped' = [flipped EXCEPT ![centeredCard] = ~isFlipped]
  /\ UNCHANGED <<centered, centeredCard, flipIntervalId, intervals>>
  /\ UNCHANGED <<filterVars, revealVars, staggerVars, envVars, hoverVars,
                 videoVars, markupVars, shellVars, themeVars, cardHandlers, warnings,
                 uncaught, tickVars, animReady, forced, resizeTimeout,
                 scrollY, innerWidth>>

\* ------------------------------------------------------------ theme module
THEME_DARK == "dark"
THEME_LIGHT == "light"
Themes == {THEME_DARK, THEME_LIGHT}

\* What JavaScript takes for true of a storage value: null and '' are not.
truthy(v) == v # Null /\ v # ""

\* Mutant: whatever is stored is taken for the theme.
getInitialTheme_anyStored(savedTheme, matchMedia, matches) ==
  IF truthy(savedTheme)
  THEN savedTheme
  ELSE IF matchMedia /\ matches THEN THEME_LIGHT ELSE THEME_DARK

getInitialTheme(savedTheme, matchMedia, matches) ==
  IF truthy(savedTheme) /\ (savedTheme = THEME_DARK \/ savedTheme = THEME_LIGHT)
  THEN savedTheme
  ELSE IF matchMedia /\ matches THEN THEME_LIGHT ELSE THEME_DARK

\* The theme the toggle's aria-label offers.
nextTheme(theme) == IF theme = THEME_DARK THEN THEME_LIGHT ELSE THEME_DARK

NoToggle ==
  [by |-> "theme", text |-> "Theme toggle button not found (#theme-toggle)"]

notThemeVars == <<filterVars, revealVars, staggerVars, envVars, hoverVars,
                  videoVars, markupVars, shellVars, centerVars, cardHandlers, uncaught,
                  tickVars, animReady, forced, resizeTimeout, scrollY,
                  innerWidth>>

\* init(): the initial theme is applied; without the button the module
\* warns and attaches nothing.
themeInit ==
  /\ ~themeReady
  /\ themeReady' = TRUE
  /\ dataTheme' = getInitialTheme(storedTheme, hasMatchMedia, systemLight)
  /\ IF hasToggle
     THEN /\ ariaLabel' = nextTheme(dataTheme')
          /\ UNCHANGED warnings
     ELSE /\ warnings' = warnings \cup {NoToggle}
          /\ UNCHANGED ariaLabel
  /\ UNCHANGED <<storedTheme, systemLight, hasToggle, hasMatchMedia,
                 transitioning, transitionTimers, toggleFrom>>
  /\ UNCHANGED notThemeVars

\* Mutant: the toggle applies the theme and does not save it.
toggleTheme_noStore ==
  /\ themeReady /\ hasToggle
  /\ transitionTimers < MaxThemeTimers
  /\ LET currentTheme == IF truthy(dataTheme) THEN dataTheme ELSE THEME_DARK
         newTheme == IF currentTheme = THEME_DARK THEN THEME_LIGHT
                                                  ELSE THEME_DARK
     IN /\ dataTheme' = newTheme
        /\ UNCHANGED storedTheme
        /\ transitioning' = TRUE
        /\ transitionTimers' = transitionTimers + 1
        /\ ariaLabel' = nextTheme(newTheme)
        /\ toggleFrom' = currentTheme
  /\ UNCHANGED <<systemLight, themeReady, hasToggle, hasMatchMedia, warnings>>
  /\ UNCHANGED notThemeVars

\* A click on #theme-toggle.
toggleTheme ==
  /\ themeReady /\ hasToggle
  /\ transitionTimers < MaxThemeTimers
  /\ LET currentTheme == IF truthy(dataTheme) THEN dataTheme ELSE THEME_DARK
         newTheme == IF currentTheme = THEME_DARK THEN THEME_LIGHT
                                                  ELSE THEME_DARK
     IN /\ dataTheme' = newTheme
        /\ storedTheme' = newTheme
        /\ transitioning' = TRUE
        /\ transitionTimers' = transitionTimers + 1
        /\ ariaLabel' = nextTheme(newTheme)
        /\ toggleFrom' = currentTheme
  /\ UNCHANGED <<systemLight, themeReady, hasToggle, hasMatchMedia, warnings>>
  /\ UNCHANGED notThemeVars

\* A timer of triggerTransition fires.
transitionTimerFire ==
  /\ transitionTimers > 0
  /\ transitionTimers' = transitionTimers - 1
  /\ transitioning' = FALSE
  /\ UNCHANGED <<storedTheme, systemLight, dataTheme, themeReady, hasToggle,
                 hasMatchMedia, ariaLabel, toggleFrom, warnings>>
  /\ UNCHANGED notThemeVars

\* The listener of the colour-scheme query is attached.
listensToSystem == themeReady /\ hasToggle /\ hasMatchMedia

\* The system's colour scheme changes; handleSystemPreferenceChange runs
\* where init attached it.
systemChange(matches) ==
  /\ hasMatchMedia
  /\ matches # systemLight
  /\ systemLight' = matches
  /\ IF listensToSystem /\ ~truthy(storedTheme)
     THEN LET newTheme == IF matches THEN THEME_LIGHT ELSE THEME_DARK
          IN /\ dataTheme' = newTheme
             /\ ariaLabel' = nextTheme(newTheme)
     ELSE UNCHANGED <<dataTheme, ariaLabel>>
  /\ UNCHANGED <<storedTheme, themeReady, hasToggle, hasMatchMedia,
                 transitioning, transitionTimers, toggleFrom, warnings>>
  /\ UNCHANGED notThemeVars

\* ---------------------------------------------------------- specification
\* The filter bar with a pill and a dropdown item for every filter, as the
\* markup has them before any script ran.
FullControls ==
  /\ pillActive = [p \in Filters |-> FALSE]
  /\ pillAria = [p \in Filters |-> Null]
  /\ itemActive = [p \in Filters |-> FALSE]
  /\ itemAria = [p \in Filters |-> Null]
  /\ dropdownOpen = FALSE
  /\ ariaExpanded = "false"
  /\ dropdownLabel = Null
  /\ selected = Null

\* A device with a pointer that hovers; the page loads the card module
\* `script`, which has not run yet.
HoverDevice(script) ==
  /\ supportsHover = TRUE
  /\ cardScript = script
  /\ cardHandlers = "none"

\* The card module and the theme module not yet initialised, nothing on
\* the console.
\* The theme module before its init ran.
InitThemeModule ==
  /\ dataTheme = Null
  /\ themeReady = FALSE
  /\ ariaLabel = Null
  /\ transitioning = FALSE
  /\ transitionTimers = 0
  /\ toggleFrom = Null

\* The card module and the console before any script ran.
InitCards ==
  /\ warnings = {}
  /\ uncaught = FALSE
  /\ isCenterTicking = FALSE
  /\ centerRaf = 0
  /\ centerEvents = 0
  /\ centered = [c \in Cards |-> FALSE]
  /\ centeredCard = 0
  /\ flipIntervalId = 0
  /\ intervals = {}
  /\ isFlipped = FALSE
  /\ flipped = [c \in Cards |-> FALSE]

\* The navigation module before its init, with the header's and the
\* menu's markup as served.
InitNav ==
  /\ navReady = FALSE
  /\ navScrolled = FALSE
  /\ navHidden = FALSE
  /\ lastScrollY = 0
  /\ ticking = FALSE
  /\ navRaf = 0
  /\ btnActive = FALSE
  /\ menuActive = FALSE
  /\ menuExpanded = Null
  /\ menuHidden = Null
  /\ bodyOverflow = ""

FullNav ==
  /\ hasNavHeader = TRUE
  /\ hasMenuBtn = TRUE
  /\ hasMobileMenu = TRUE

\* The page-transition module before its init on a first visit.
InitPages ==
  /\ pageScript = "part_000"
  /\ pageReady = FALSE
  /\ currentPath = "/"
  /\ lastPagePath = Null
  /\ savedScroll = [p \in Paths |-> NoPosition]
  /\ subpixel = 0
  /\ scrollSaveTimer = FALSE
  /\ pageTransitioning = FALSE
  /\ pendingNav = {}
  /\ loadTimer = FALSE
  /\ initScrollTo = NoPosition
  /\ reloadPending = FALSE

InitShell == FullNav /\ InitNav /\ InitPages

InitModules ==
  /\ InitCards
  /\ systemLight = FALSE
  /\ hasToggle = TRUE
  /\ hasMatchMedia = TRUE
  /\ InitThemeModule

InitSite == InitModules /\ InitShell

InitGrid ==
  /\ variant \in Variants
  /\ prefersReducedMotion \in BOOLEAN
  /\ filterReady = FALSE
  /\ animReady = FALSE
  /\ hidden = [c \in Cards |-> FALSE]
  /\ display = [c \in Cards |-> ""]
  /\ timers = <<>>
  /\ staleFired = FALSE
  /\ observer = Null
  /\ observed = {}
  /\ orphaned = {}
  /\ revealed = [e \in Cards |-> FALSE]
  /\ byObserver = {}
  /\ transition = [e \in Cards |-> ""]
  /\ delay = [e \in Cards |-> NoDelay]
  /\ forced = [e \in Cards |-> FALSE]
  /\ rafQueue = <<>>
  /\ uncommitted = {}
  /\ staggerIndex = 0
  /\ staggerResetTimer = FALSE
  /\ resetTimers = 0
  /\ sinceReset = 0
  /\ resizeTimeout = FALSE
  /\ scrollY = 0
  /\ innerWidth = MobileWidth
  /\ resyncFor = <<>>
  /\ hovered = [c \in Cards |-> FALSE]
  /\ activeCards = <<>>
  /\ parallax = [c \in Cards |-> Neutral]
  /\ parallaxRaf = {}
  /\ stepsTaken = [c \in Cards |-> 0]
  /\ moves = 0
  /\ cancelledStep = 0
  /\ videoPaused = [c \in Cards |-> TRUE]
  /\ videoTime = [c \in Cards |-> 0]
  /\ stopRaf = [c \in Cards |-> FALSE]
  /\ pauseListeners = [c \in Cards |-> 0]
  /\ pauseEvents = [c \in Cards |-> FALSE]
  /\ playPending = [c \in Cards |-> FALSE]
  /\ lastPlay = [c \in Cards |-> "none"]
  /\ unhandled = FALSE

\* The page as it loads: every control and card in place, nothing stored.
Init ==
  /\ InitGrid
  /\ pointerOver = 0
  /\ FullControls
  /\ pageCards = Cards
  /\ storedTheme = Null
  /\ hasObserver = TRUE
  /\ InitSite
  /\ HoverDevice("card-hover.js")

\* A click on a pill while no timer of an earlier selection is pending.
quietPillClick(f) ==
  /\ timers = <<>>
  /\ pillClick(f)

\* The reveal controller under every event of the page, with filter
\* selections that do not overlap.
Next ==
  \/ filterInit
  \/ \E f \in Filters : quietPillClick(f)
  \/ displayTimerFire
  \/ reinitTimerFire
  \/ init
  \/ filterChanged
  \/ frame
  \/ \E S \in SUBSET observed : observerCallback(S)
  \/ \E S \in SUBSET orphaned : orphanCallback(S)
  \/ staggerResetFire
  \/ \E y \in ScrollPositions : scroll(y)
  \/ resize(innerWidth)
  \/ handleResize

Spec == Init /\ [][Next]_vars

\* The filter controller under selections that overlap, with the resync it
\* triggers and the frames that resync asks for.
NextFilter ==
  \/ filterInit
  \/ \E f \in Filters : pillClick(f)
  \/ displayTimerFire
  \/ reinitTimerFire
  \/ init
  \/ frame

SpecFilter == Init /\ [][NextFilter]_vars


\* The filter controller on pages whose filter bar holds any of the control
\* groups, with or without cards, and with anything in storage.  Reduced
\* motion is on, so the resync the filter triggers changes nothing.
ControlGroups == {{}, {"web", "print"}, Filters}
StoredValues == {Null, "", "dark", "light", "blue"}

InitControls ==
  /\ InitGrid
  /\ pointerOver = 0
  /\ variant = "current"
  /\ prefersReducedMotion
  /\ \E pills \in ControlGroups, items \in ControlGroups :
       /\ pillActive = [p \in pills |-> FALSE]
       /\ pillAria = [p \in pills |-> Null]
       /\ itemActive = [i \in items |-> FALSE]
       /\ itemAria = [i \in items |-> Null]
  /\ dropdownOpen = FALSE
  /\ ariaExpanded \in {Null, "false"}
  /\ dropdownLabel = Null
  /\ selected = Null
  /\ pageCards \in {{}, Cards}
  /\ storedTheme \in StoredValues
  /\ hasObserver = TRUE
  /\ InitSite
  /\ HoverDevice("card-hover.js")

NextControls ==
  \/ filterInit
  \/ \E f \in Filters : pillClick(f)
  \/ \E f \in Filters : itemClick(f)
  \/ toggleDropdown
  \/ outsideClick
  \/ escapeKey
  \/ displayTimerFire
  \/ reinitTimerFire
  \/ init

SpecControls == InitControls /\ [][NextControls]_vars

\* The theme module on a page with or without the toggle button, in a
\* browser with or without matchMedia, whatever the 'theme' key holds.
InitTheme ==
  /\ InitGrid
  /\ pointerOver = 0
  /\ variant = "current"
  /\ prefersReducedMotion
  /\ FullControls
  /\ pageCards = Cards
  /\ hasObserver = TRUE
  /\ HoverDevice("card-hover.js")
  /\ InitCards
  /\ InitShell
  /\ InitThemeModule
  /\ storedTheme \in StoredValues
  /\ hasToggle \in BOOLEAN
  /\ hasMatchMedia \in BOOLEAN
  /\ systemLight \in {FALSE, hasMatchMedia}

NextTheme ==
  \/ themeInit
  \/ toggleTheme
  \/ transitionTimerFire
  \/ \E matches \in BOOLEAN : systemChange(matches)

SpecTheme == InitTheme /\ [][NextTheme]_vars

\* The page in a browser without IntersectionObserver.
InitNoObserver ==
  /\ InitGrid
  /\ pointerOver = 0
  /\ FullControls
  /\ pageCards = Cards
  /\ storedTheme = Null
  /\ hasObserver = FALSE
  /\ InitSite
  /\ HoverDevice("card-hover.js")

NextNoObserver ==
  \/ filterInit
  \/ \E f \in Filters : quietPillClick(f)
  \/ displayTimerFire
  \/ reinitTimerFire
  \/ init
  \/ filterChanged
  \/ frame
  \/ \E y \in ScrollPositions : scroll(y)

SpecNoObserver == InitNoObserver /\ [][NextNoObserver]_vars

\* The card module on a device without hover, the page scrolled and
\* resized.
CenterWidths == {MobileWidth, DesktopWidth}

InitCenter ==
  /\ InitGrid
  /\ pointerOver = 0
  /\ variant = "current" /\ prefersReducedMotion
  /\ FullControls
  /\ pageCards = Cards
  /\ storedTheme = Null
  /\ hasObserver = TRUE
  /\ InitSite
  /\ supportsHover = FALSE
  /\ cardScript \in {"card-hover.js", "transitions.js"}
  /\ cardHandlers = "none"

NextCenter ==
  \/ cardInit
  \/ \E y \in ScrollPositions : scroll(y)
  \/ \E w \in CenterWidths : resize(w)
  \/ centerFrame
  \/ flipTick
  \/ videoFrame
  \/ \E c \in Cards : pauseEventFire(c)
  \/ \E c \in Cards : playStarts(c)

SpecCenter == InitCenter /\ [][NextCenter]_vars

\* The stagger scheduler alone, on grids of up to MaxGrid children whose
\* display the filter has set any way, called through the exported
\* applyStaggerDelays and through the debounced resize handler.
MaxGrid == 5
StaggerWidths == {MobileWidth, 767, 768, 1023, 1024, DesktopWidth}

\* window.AnimationSystem.applyStaggerDelays(container); grid is FALSE when
\* the container is absent.
applyStaggerCall(grid) ==
  /\ delay' = applyStaggerDelays(variant, grid, display, innerWidth, delay)
  /\ UNCHANGED <<observer, observed, orphaned, revealed, byObserver, transition,
                 rafQueue, uncommitted>>
  /\ UNCHANGED <<filterVars, staggerVars, envVars, siteVars, warnings, uncaught, tickVars, hoverVars, videoVars, animReady, forced,
                 resizeTimeout, scrollY, innerWidth>>

InitStagger ==
  /\ variant \in Variants
  /\ prefersReducedMotion = FALSE
  /\ filterReady = FALSE
  /\ animReady = FALSE
  /\ hidden = [c \in Cards |-> FALSE]
  /\ \E n \in 0..MaxGrid :
       /\ display \in [1..n -> {"", "none"}]
       /\ delay = [c \in 1..n |-> NoDelay]
  /\ timers = <<>>
  /\ staleFired = FALSE
  /\ observer = Null
  /\ observed = {}
  /\ orphaned = {}
  /\ revealed = [e \in Cards |-> FALSE]
  /\ byObserver = {}
  /\ transition = [e \in Cards |-> ""]
  /\ forced = [e \in Cards |-> FALSE]
  /\ rafQueue = <<>>
  /\ uncommitted = {}
  /\ staggerIndex = 0
  /\ staggerResetTimer = FALSE
  /\ resetTimers = 0
  /\ sinceReset = 0
  /\ resizeTimeout = FALSE
  /\ scrollY = 0
  /\ innerWidth \in StaggerWidths
  /\ resyncFor = <<>>
  /\ pointerOver = 0
  /\ hovered = [c \in Cards |-> FALSE]
  /\ activeCards = <<>>
  /\ parallax = [c \in Cards |-> Neutral]
  /\ parallaxRaf = {}
  /\ stepsTaken = [c \in Cards |-> 0]
  /\ moves = 0
  /\ cancelledStep = 0
  /\ videoPaused = [c \in Cards |-> TRUE]
  /\ videoTime = [c \in Cards |-> 0]
  /\ stopRaf = [c \in Cards |-> FALSE]
  /\ pauseListeners = [c \in Cards |-> 0]
  /\ pauseEvents = [c \in Cards |-> FALSE]
  /\ playPending = [c \in Cards |-> FALSE]
  /\ lastPlay = [c \in Cards |-> "none"]
  /\ unhandled = FALSE
  /\ FullControls
  /\ pageCards = Cards
  /\ storedTheme = Null
  /\ hasObserver = TRUE
  /\ InitSite
  /\ HoverDevice("card-hover.js")

NextStagger ==
  \/ \E grid \in BOOLEAN : applyStaggerCall(grid)
  \/ \E w \in StaggerWidths : resize(w)
  \/ handleResize

SpecStagger == InitStagger /\ [][NextStagger]_vars


\* The parallax engine of a page that has loaded, with the pointer a pixel
\* around the centre of a card.
HoverXs == {CardWidth \div 2 - 1, CardWidth \div 2 + 1}
HoverYs == {CardHeight \div 2, CardHeight \div 2 + 1}

InitHover == Init /\ variant = "current" /\ ~prefersReducedMotion

NextHover ==
  \/ \E c \in Cards : mouseenter(c)
  \/ \E c \in Cards : mouseleave(c)
  \/ \E c \in Cards, x \in HoverXs, y \in HoverYs : mousemove(c, x, y)
  \/ parallaxFrame
  \/ cardInit

SpecHover == InitHover /\ [][NextHover]_vars

\* The interpolation loop over the whole range of offsets: card 1 is
\* hovered, its session has settled on the target of an earlier pointer
\* position, and a move to a new position has just requested a step.
EdgeXs == {0, CardWidth \div 2, CardWidth}
EdgeYs == {0, CardHeight \div 2, CardHeight}

\* Where the loop leaves the current offset of an axis that started at c.
RECURSIVE settle(_, _)
settle(c, target) ==
  LET n == lerp(c, target)
  IN IF Abs(target - n) > Epsilon THEN settle(n, target) ELSE n

InitParallax ==
  /\ variant = "current"
  /\ prefersReducedMotion = FALSE
  /\ filterReady = FALSE
  /\ animReady = FALSE
  /\ hidden = [c \in Cards |-> FALSE]
  /\ display = [c \in Cards |-> ""]
  /\ timers = <<>>
  /\ staleFired = FALSE
  /\ observer = Null
  /\ observed = {}
  /\ orphaned = {}
  /\ revealed = [e \in Cards |-> FALSE]
  /\ byObserver = {}
  /\ transition = [e \in Cards |-> ""]
  /\ delay = [e \in Cards |-> NoDelay]
  /\ forced = [e \in Cards |-> FALSE]
  /\ rafQueue = <<>>
  /\ uncommitted = {}
  /\ staggerIndex = 0
  /\ staggerResetTimer = FALSE
  /\ resetTimers = 0
  /\ sinceReset = 0
  /\ resizeTimeout = FALSE
  /\ scrollY = 0
  /\ innerWidth = DesktopWidth
  /\ resyncFor = <<>>
  /\ pointerOver = 1
  /\ hovered = [c \in Cards |-> c = 1]
  /\ \E px \in EdgeXs, py \in EdgeYs, mx \in EdgeXs, my \in EdgeYs :
       LET oldX == parallaxTarget(px, CardWidth)
           oldY == parallaxTarget(py, CardHeight)
       IN /\ activeCards =
               mapSet(<<>>, 1,
                      [rafId |-> 1,
                       targetX |-> parallaxTarget(mx, CardWidth),
                       targetY |-> parallaxTarget(my, CardHeight),
                       currentX |-> settle(0, oldX),
                       currentY |-> settle(0, oldY)])
          /\ parallax = [c \in Cards |->
                           IF c = 1 THEN applyParallax(oldX, oldY)
                           ELSE Neutral]
  /\ parallaxRaf = {[card |-> 1, id |-> 1]}
  /\ stepsTaken = [c \in Cards |-> 0]
  /\ moves = MaxMoves
  /\ cancelledStep = 0
  /\ videoPaused = [c \in Cards |-> TRUE]
  /\ videoTime = [c \in Cards |-> 0]
  /\ stopRaf = [c \in Cards |-> FALSE]
  /\ pauseListeners = [c \in Cards |-> 0]
  /\ pauseEvents = [c \in Cards |-> FALSE]
  /\ playPending = [c \in Cards |-> FALSE]
  /\ lastPlay = [c \in Cards |-> "none"]
  /\ unhandled = FALSE
  /\ FullControls
  /\ pageCards = Cards
  /\ storedTheme = Null
  /\ hasObserver = TRUE
  /\ InitSite
  /\ supportsHover = TRUE
  /\ cardScript = "card-hover.js"
  /\ cardHandlers = "hover"

NextParallax ==
  \/ parallaxFrame
  \/ \E c \in Cards : mouseleave(c)

SpecParallax == InitParallax /\ [][NextParallax]_vars

\* Pages that lack what a module looks for: no filter control, no card, no
\* grid container; and a pointer that was over a card before the card
\* module attached its handlers, so that the card has no session.
InitMissing ==
  /\ InitGrid
  /\ prefersReducedMotion
  /\ \E group \in {{}, Filters} :
       /\ pillActive = [p \in group |-> FALSE]
       /\ pillAria = [p \in group |-> Null]
       /\ itemActive = [i \in group |-> FALSE]
       /\ itemAria = [i \in group |-> Null]
  /\ dropdownOpen = FALSE
  /\ ariaExpanded = "false"
  /\ dropdownLabel = Null
  /\ selected = Null
  /\ pageCards \in {{}, Cards}
  /\ pointerOver \in {0} \cup pageCards
  /\ storedTheme = Null
  /\ hasObserver = TRUE
  /\ InitSite
  /\ HoverDevice("card-hover.js")

\* The pointer a pixel right of a card's centre.
MissingXs == {CardWidth \div 2 + 1}
MissingYs == {CardHeight \div 2}

NextMissing ==
  \/ \E grid \in BOOLEAN : applyStaggerCall(grid)
  \/ filterInit
  \/ init
  \/ displayTimerFire
  \/ reinitTimerFire
  \/ cardInit
  \/ \E c \in Cards : mouseenter(c)
  \/ \E c \in Cards : mouseleave(c)
  \/ \E c \in Cards, x \in MissingXs, y \in MissingYs : mousemove(c, x, y)
  \/ parallaxFrame

SpecMissing == InitMissing /\ [][NextMissing]_vars

\* The filter controller, the reveal controller and the parallax engine
\* on one page: selections that do not overlap, the resync and its
\* frames, observer callbacks, and the pointer over the first card.
NextOwners ==
  \/ filterInit
  \/ \E f \in Filters : quietPillClick(f)
  \/ displayTimerFire
  \/ reinitTimerFire
  \/ init
  \/ frame
  \/ \E S \in SUBSET observed : observerCallback(S)
  \/ staggerResetFire
  \/ cardInit
  \/ mouseenter(1)
  \/ mouseleave(1)
  \/ \E x \in MissingXs, y \in MissingYs : mousemove(1, x, y)
  \/ parallaxFrame

SpecOwners == InitHover /\ [][NextOwners]_vars

\* The reveal controller of js/animations.js in a window that is resized
\* between one column and three, so that a batch of the observer holds
\* one card or both.
NextCounter ==
  \/ init
  \/ filterChanged
  \/ frame
  \/ \E S \in SUBSET observed : observerCallback(S)
  \/ \E S \in SUBSET orphaned : orphanCallback(S)
  \/ staggerResetFire
  \/ \E y \in ScrollPositions : scroll(y)
  \/ \E w \in CenterWidths : resize(w)
  \/ handleResize

SpecCounter == InitHover /\ [][NextCounter]_vars

\* ------------------------------------------------------------- navigation
\* The positions the window is scrolled to: steps of half HIDE_THRESHOLD,
\* on a whole pixel or between two.
NavScrolls == {k * (HIDE_THRESHOLD \div 2) : k \in 0..MaxNavSteps}
Subpixels == {0, 5}

\* The page as it loads, but for the navigation and page-transition state.
InitDocument ==
  /\ InitGrid
  /\ variant = "current"
  /\ ~prefersReducedMotion
  /\ pointerOver = 0
  /\ FullControls
  /\ pageCards = Cards
  /\ storedTheme = Null
  /\ hasObserver = TRUE
  /\ InitModules
  /\ HoverDevice("card-hover.js")

\* A page with any of the header, the menu button and the menu.
InitNavPage ==
  /\ InitDocument
  /\ hasNavHeader \in BOOLEAN
  /\ hasMenuBtn \in BOOLEAN
  /\ hasMobileMenu \in BOOLEAN
  /\ InitNav
  /\ InitPages

NextNav ==
  \/ navInit
  \/ \E y \in NavScrolls, f \in Subpixels : scrollBy(y, f)
  \/ navFrame
  \/ menuBtnClick
  \/ mobileLinkClick
  \/ menuEscape

SpecNav == InitNavPage /\ [][NextNav]_vars

\* -------------------------------------------------------- page transitions
\* A first visit to the site, with any revision of the module and the
\* body as served.
InitPagesAny ==
  /\ InitDocument
  /\ FullNav
  /\ InitNav
  /\ pageScript \in PageScripts
  /\ pageReady = FALSE
  /\ currentPath \in Paths
  /\ lastPagePath = Null
  /\ savedScroll = [p \in Paths |-> NoPosition]
  /\ subpixel = 0
  /\ scrollSaveTimer = FALSE
  /\ pageTransitioning \in BOOLEAN
  /\ pendingNav = {}
  /\ loadTimer = FALSE
  /\ initScrollTo = NoPosition
  /\ reloadPending = FALSE

NextPages ==
  \/ pageInit
  \/ \E y \in ScrollPositions, f \in Subpixels : scrollBy(y, f)
  \/ scrollSaveFire
  \/ \E l \in Links : linkClick(l)
  \/ \E n \in pendingNav : navTimerFire(n)
  \/ reloadFire
  \/ userReload
  \/ loadTimerFire
  \/ \E persisted \in BOOLEAN : pageshow(persisted)

SpecPages == InitPagesAny /\ [][NextPages]_vars

\* The card videos of a page that loads the card module of
\* js/transitions.js.
InitVideo ==
  /\ InitGrid
  /\ pointerOver = 0
  /\ variant = "current" /\ ~prefersReducedMotion
  /\ FullControls
  /\ pageCards = Cards
  /\ storedTheme = Null
  /\ hasObserver = TRUE
  /\ InitSite
  /\ HoverDevice("transitions.js")

NextVideo ==
  \/ \E c \in Cards : videoMouseEnter(c)
  \/ \E c \in Cards : videoMouseLeave(c)
  \/ videoFrame
  \/ \E c \in Cards : pauseEventFire(c)
  \/ \E c \in Cards : playStarts(c)
  \/ \E c \in Cards : videoAdvance(c)
  \/ cardInit

SpecVideo == InitVideo /\ [][NextVideo]_vars


\* ================================================================ claims
\* The filter selected last: the data-filter of the pill that is active.
ActiveFilter == CHOOSE p \in Filters : pillActive[p]

\* The space-separated tokens of a card's data-categories.
tokens(c) == {dataCategories(c)[i] : i \in 1..Len(dataCategories(c))} \ {""}

Registered == observed \cup orphaned

\* A step in which reinitialize() is called.
ReinitCalled == reinitTimerFire \/ filterChanged

\* The three-tier breakpoint table.
BreakpointColumns(w) == IF w < 768 THEN 1 ELSE IF w <= 1023 THEN 2 ELSE 3

\* C1: once the timers of a filter application have fired, a card is shown
\* (no 'filter-hidden', display '') iff the filter is 'all' or one of the
\* card's tokens; every other card carries 'filter-hidden' and display none.
C1_ShownIffMatches ==
  (filterReady /\ timers = <<>>) =>
    \A c \in Cards :
      IF ActiveFilter = "all" \/ ActiveFilter \in tokens(c)
      THEN ~hidden[c] /\ display[c] = ""
      ELSE hidden[c] /\ display[c] = "none"

C1_Witness ==
  /\ filterReady /\ timers = <<>>
  /\ ActiveFilter = "print"
  /\ hidden[1] /\ display[1] = "none"
  /\ ~hidden[2] /\ display[2] = ""

\* C2: whatever selections were made and whenever, once no display timer is
\* pending every card's class and display agree with each other and with
\* the filter selected last.
NoDisplayTimerPending ==
  \A i \in 1..Len(timers) : timers[i].kind # "display"

C2_LastSelectionWins ==
  (filterReady /\ NoDisplayTimerPending) =>
    \A c \in Cards :
      /\ hidden[c] = (display[c] = "none")
      /\ hidden[c] = ~shouldShow(ActiveFilter, c)

C2_Witness ==
  /\ filterReady /\ NoDisplayTimerPending
  /\ staleFired
  /\ ActiveFilter = "print"
  /\ display[1] = "none" /\ display[2] = ""

\* C3: under reduced motion init reveals every element, and afterwards no
\* observer exists, nothing is registered and every element stays revealed.
C3_ReducedMotion ==
  (prefersReducedMotion /\ animReady) =>
    /\ observer = Null
    /\ Registered = {}
    /\ \A e \in Cards : revealed[e]

C3_Witness ==
  /\ prefersReducedMotion /\ animReady
  /\ filterReady /\ timers = <<>> /\ ActiveFilter = "print"
  /\ scrollY # 0
  /\ resizeTimeout

\* C4: an element the observer callback has revealed is registered with no
\* observer until reinitialize() is called.
C4_RevealOnce == byObserver \cap Registered = {}

\* C5: between two reinitialize() calls the revealed elements only grow: a
\* step in which an element loses 'is-visible' is a call of reinitialize().
C5_RevealedOneWay ==
  [][(\E e \in Cards : revealed[e] /\ ~revealed'[e]) => ReinitCalled]_vars

C5_Witness ==
  /\ ~prefersReducedMotion /\ animReady
  /\ \E e \in Cards : e \in byObserver /\ revealed[e]
  /\ observed # {}
  /\ filterReady /\ timers = <<>>

\* C6: once the deferred frames of every reinitialize() have run, a
\* displayed element is either revealed or registered, never both and never
\* neither, and a filtered-out element is neither.
C6_Partition ==
  (~prefersReducedMotion /\ animReady /\ filterReady /\ timers = <<>>
     /\ rafQueue = <<>>) =>
    \A e \in Cards :
      IF display[e] # "none"
      THEN revealed[e] # (e \in Registered)
      ELSE ~revealed[e] /\ e \notin Registered

\* C7: reinitialize() clears every element at once, and an element whose
\* cleared state no frame has rendered yet is not revealed.
C7_NoFlash ==
  [][\A e \in Cards :
       /\ (ReinitCalled /\ ~prefersReducedMotion) => ~revealed'[e]
       /\ (e \in uncommitted /\ ~revealed[e]) => ~revealed'[e]]_vars

\* C8: from a call of reinitialize() until that call's own re-partition has
\* run, no element is registered with any observer instance.
C8_NothingRegisteredWhilePending ==
  rafQueue # <<>> => Registered = {}

\* C9 as stated: init, without reduced motion, reveals exactly the elements
\* in the viewport and registers exactly the others.
C9_InitRevealsViewport ==
  [][(init /\ ~prefersReducedMotion) =>
       \A e \in Cards :
         /\ revealed'[e] = isInViewport(e, display, innerWidth, scrollY)
         /\ (e \in observed') = ~isInViewport(e, display, innerWidth, scrollY)]_vars

\* C9 amended: the current revision reveals nothing in init and registers
\* every element; the earlier revision reveals exactly the elements in the
\* viewport and registers exactly the others.
C9_InitByRevision ==
  [][(init /\ ~prefersReducedMotion) =>
       \A e \in Cards :
         IF variant = "current"
         THEN ~revealed'[e] /\ e \in observed'
         ELSE /\ revealed'[e] = isInViewport(e, display, innerWidth, scrollY)
              /\ (e \in observed') =
                   ~isInViewport(e, display, innerWidth, scrollY)]_vars

C9_Witness ==
  /\ ~prefersReducedMotion /\ animReady /\ variant = "current"
  /\ isInViewport(1, display, innerWidth, scrollY)
  /\ 1 \in observed /\ ~revealed[1]
  /\ rafQueue = <<>> /\ ~filterReady

\* C10: applyStaggerDelays gives the i-th displayed child the delay
\* (i mod columns) * STEP and clears the delay of every other child.
EffectiveDelay(d) == IF d = NoDelay THEN 0 ELSE d

StepOf(v) == IF v = "current" THEN STAGGER_STEP ELSE GridStaggerStep

C10_StaggerByVisibleIndex ==
  [][(handleResize \/ applyStaggerCall(TRUE)) =>
       \A c \in DOMAIN display :
         IF display[c] # "none"
         THEN EffectiveDelay(delay'[c]) =
                (Cardinality({d \in DOMAIN display :
                                d < c /\ display[d] # "none"})
                   % BreakpointColumns(innerWidth)) * StepOf(variant)
         ELSE delay'[c] = NoDelay]_vars

\* C11: a second applyStaggerDelays on the same container, with the
\* children, their display and the window width as the first call left
\* them, gives every child the delay it already has.
C11_Idempotent ==
  [][\A grid \in BOOLEAN :
       applyStaggerCall(grid) =>
         applyStaggerDelays(variant, grid, display', innerWidth', delay')
           = delay']_vars

C11_Witness ==
  /\ variant = "earlier" /\ innerWidth = DesktopWidth
  /\ Len(display) = 4 /\ display[2] = "none"
  /\ delay[1] = 0 /\ delay[2] = NoDelay
  /\ delay[3] = GridStaggerStep /\ delay[4] = 2 * GridStaggerStep

C13_ResizeTrailingEdge ==
  [][handleResize =>
       /\ ~resizeTimeout'
       /\ \A c \in DOMAIN display :
            display[c] # "none" =>
              EffectiveDelay(delay'[c]) =
                (visibleIndex(c, display) % BreakpointColumns(innerWidth))
                  * StepOf(variant)]_vars

\* A step of size `moved` is 15% of the distance `dist`, to the nearest unit,
\* and goes the same way.
FifteenPercent(moved, dist) ==
  /\ (dist >= 0) => (moved >= 0)
  /\ (dist <= 0) => (moved <= 0)
  /\ Abs(100 * (Abs(moved) - 15 * (Abs(dist) \div 100))
           - 15 * (Abs(dist) % 100)) <= 50

\* The pending steps of card c.
pendingSteps(c) == {r \in parallaxRaf : r.card = c}

\* C14: a card the pointer is not over (it never was, or it has left) has
\* no session, no pending step, no hover class and a neutral image offset,
\* and stays so whatever frames follow.
C14_LeaveCleansUp ==
  \A c \in Cards :
    pointerOver # c =>
      /\ c \notin DOMAIN activeCards
      /\ pendingSteps(c) = {}
      /\ ~hovered[c]
      /\ parallax[c] = Neutral

C14_Witness ==
  /\ pointerOver = 0
  /\ cancelledStep = 1
  /\ parallax[1] = Neutral /\ parallaxRaf = {}

\* The number of steps a distance d needs at most to come within Epsilon
\* when every step leaves 85% of it, a unit of rounding allowed per step.
RECURSIVE geometricSteps(_)
geometricSteps(d) ==
  IF d <= Epsilon THEN 0 ELSE 1 + geometricSteps((d \div 100) * 85 + 86)

StepBound == 1 + geometricSteps(2 * MAX_PARALLAX_OFFSET * PxScale)

C16_OneStepPending ==
  \A c \in Cards :
    /\ Cardinality(pendingSteps(c)) <= 1
    /\ IF c \in DOMAIN activeCards
       THEN IF activeCards[c].rafId = 0
            THEN pendingSteps(c) = {}
            ELSE pendingSteps(c) = {[card |-> c, id |-> activeCards[c].rafId]}
       ELSE pendingSteps(c) = {}

C16_Witness ==
  /\ pointerOver = 1 /\ moves = MaxMoves
  /\ stepsTaken[1] > 0
  /\ activeCards[1].rafId # 0
  /\ pendingSteps(1) = {[card |-> 1, id |-> activeCards[1].rafId]}
  /\ cancelledStep = 2

\* C17: the leave handler neither pauses nor rewinds; the video is paused by
\* the frame that follows (so a card the pointer has left, with no stop
\* pending, has its video paused), a 'pause' event is queued only by that
\* pause, and the position returns to the start only while that event is
\* dispatched.
C17_RewindOnlyOnPause ==
  /\ [](\A c \in Cards :
          (getCardVideo(c) /\ pointerOver # c /\ ~stopRaf[c]) => videoPaused[c])
  /\ [][\A c \in Cards :
          /\ videoMouseLeave(c) =>
               (videoTime' = videoTime /\ videoPaused' = videoPaused
                  /\ (getCardVideo(c) => stopRaf'[c]))
          /\ (pauseEvents'[c] /\ ~pauseEvents[c]) =>
               (videoFrame /\ stopRaf[c] /\ videoPaused'[c])
          /\ (videoTime'[c] = 0 /\ videoTime[c] # 0) =>
               (pauseEventFire(c) /\ pauseListeners[c] > 0)]_vars

C17_Witness ==
  /\ pointerOver = 0 /\ ~hovered[1]
  /\ videoPaused[1] /\ pauseEvents[1] /\ pauseListeners[1] = 1
  /\ videoTime[1] = 1

\* C18: a play() the browser rejects reaches a handler, the card keeps the
\* hover class, play() is called in no step but a pointer-enter, and enter
\* and leave do to the class and to the pending stop what they do after a
\* play that succeeded.
C18_RejectedPlaySwallowed ==
  /\ [](~unhandled)
  /\ [](\A c \in Cards : (pointerOver = c) = hovered[c])
  /\ [][\A c \in Cards :
          /\ (lastPlay'[c] # lastPlay[c] /\ lastPlay'[c] \in {"pending", "blocked"})
               => videoMouseEnter(c)
          /\ (videoMouseEnter(c) /\ getCardVideo(c)) =>
               (hovered'[c] /\ ~stopRaf'[c] /\ videoTime' = videoTime
                  /\ pauseListeners' = pauseListeners)
          /\ (videoMouseLeave(c) /\ getCardVideo(c)) =>
               (~hovered'[c] /\ stopRaf'[c])]_vars

C18_Witness ==
  /\ pointerOver = 1 /\ hovered[1]
  /\ lastPlay[1] = "blocked" /\ videoPaused[1]
  /\ pauseListeners[1] = 1 /\ ~stopRaf[1]

\* The display value the application of filter f means for card c.
displayFor(f, c) == IF f = "all" \/ f \in tokens(c) THEN "" ELSE "none"

displayTimersOf(c) ==
  {i \in 1..Len(timers) : timers[i].kind = "display" /\ timers[i].card = c}

\* C21: a card never has more than one display timer pending: a filter
\* application cancels the one the previous application left behind
\* before it sets its own.
C21_OneDisplayTimerPerCard ==
  \A c \in Cards : Cardinality(displayTimersOf(c)) <= 1

\* C22: a display timer that fires writes the value the filter selected
\* last means for its card, so the card's display agrees with its
\* 'filter-hidden' class as soon as the timer has run.
C22_TimerWritesCurrentIntent ==
  [][displayTimerFire =>
       LET c == Head(timers).card
       IN /\ Head(timers).value = displayFor(ActiveFilter, c)
          /\ hidden'[c] = (display'[c] = "none")]_vars

\* C25: in a browser without IntersectionObserver, init() leaves every
\* animation element revealed and raises no error, and every element is
\* still revealed after any later reinitialize().
C25_FallbackRevealsAll ==
  (~hasObserver /\ animReady) =>
    /\ \A e \in Cards : revealed[e]
    /\ ~uncaught

\* The controls of a group that carry 'active'.
activeControls(group) == {p \in DOMAIN group : group[p]}

\* aria-selected of every control of a group says whether it is active.
ariaFollows(active, aria) ==
  \A p \in DOMAIN active : aria[p] = IF active[p] THEN "true" ELSE "false"

\* C23 as stated: after any selections the active controls are exactly
\* those whose data-filter is the value selected last, aria-selected
\* follows, and exactly one pill and exactly one dropdown item are active.
C23_ExactlyOneEach ==
  selected # Null =>
    /\ activeControls(pillActive) = {p \in DOMAIN pillActive : p = selected}
    /\ activeControls(itemActive) = {i \in DOMAIN itemActive : i = selected}
    /\ ariaFollows(pillActive, pillAria)
    /\ ariaFollows(itemActive, itemAria)
    /\ Cardinality(activeControls(pillActive)) = 1
    /\ Cardinality(activeControls(itemActive)) = 1

\* C23 amended: the active controls are exactly those whose data-filter is
\* the value selected last and aria-selected follows; a group has one
\* active control when it holds a control for that value and none when it
\* does not.
C23_ActiveMatchesSelection ==
  selected # Null =>
    /\ activeControls(pillActive) = {p \in DOMAIN pillActive : p = selected}
    /\ activeControls(itemActive) = {i \in DOMAIN itemActive : i = selected}
    /\ ariaFollows(pillActive, pillAria)
    /\ ariaFollows(itemActive, itemAria)
    /\ Cardinality(activeControls(pillActive)) =
         IF selected \in DOMAIN pillActive THEN 1 ELSE 0
    /\ Cardinality(activeControls(itemActive)) =
         IF selected \in DOMAIN itemActive THEN 1 ELSE 0

\* 'all' was selected from the dropdown after 'web': the pill bar has no
\* pill for it.
C23_Witness ==
  /\ selected = "all" /\ Len(resyncFor) = 2 /\ resyncFor[1] = "web"
  /\ DOMAIN pillActive = {"web", "print"}
  /\ activeControls(pillActive) = {}
  /\ activeControls(itemActive) = {"all"}
  /\ pillAria["web"] = "false" /\ itemAria["all"] = "true"

\* C24: init on a page that has cards and an 'all' control selects 'all'
\* and takes 'filter-hidden' off every card; while 'all' is selected and
\* no display timer is pending every card is shown; this is so whatever
\* storage holds, and no step of the filter controller changes storage.
C24_InitSelectsAll ==
  /\ [][/\ (filterInit /\ pageCards # {}
                       /\ "all" \in (DOMAIN pillActive \cup DOMAIN itemActive))
           => /\ selected' = "all"
              /\ filterReady'
              /\ \A c \in Cards : ~hidden'[c]
        /\ storedTheme' = storedTheme]_vars
  /\ []((filterReady /\ selected = "all" /\ NoDisplayTimerPending) =>
          \A c \in Cards : ~hidden[c] /\ display[c] = "")

C24_Witness ==
  /\ filterReady /\ selected = "all" /\ timers = <<>> /\ resyncFor = <<>>
  /\ storedTheme = "blue"
  /\ DOMAIN pillActive = Filters /\ pillActive["all"]
  /\ \A c \in Cards : ~hidden[c] /\ display[c] = ""

\* A step in which updateCenteredCard() runs.
CenterRecomputed ==
  \/ centerFrame
  \/ cardInit /\ cardHandlers' = "center"

NoControls == DOMAIN pillActive = {} /\ DOMAIN itemActive = {}

\* A pointer move on card c, which has no session.
MoveWithoutSession ==
  \E c \in Cards, x \in MissingXs, y \in MissingYs :
    mousemove(c, x, y) /\ c \notin DOMAIN activeCards

\* C26: missing inputs change nothing.  applyStaggerDelays without a
\* container leaves every delay; on a page without filter controls or
\* without cards the filter's init attaches no handler and sets no timer;
\* on a page without cards the card module attaches no handler; a pointer
\* move on a card without a session changes no offset and requests no
\* step.
C26_MissingInputsNoOp ==
  /\ [](/\ applyStaggerDelays(variant, FALSE, display, innerWidth, delay) = delay
        /\ (NoControls \/ pageCards = {}) =>
             /\ ~filterReady /\ timers = <<>> /\ selected = Null
             /\ \A c \in Cards : ~hidden[c] /\ display[c] = ""
        /\ pageCards = {} =>
             /\ cardHandlers = "none"
             /\ \A c \in Cards : ~hovered[c]
             /\ activeCards = <<>>)
  /\ [][/\ (filterInit /\ (NoControls \/ pageCards = {})) =>
             UNCHANGED <<filterVars, revealVars, hoverVars>>
        /\ (cardInit /\ pageCards = {}) =>
             UNCHANGED <<cardHandlers, hoverVars, centerVars>>
        /\ MoveWithoutSession =>
             UNCHANGED <<parallax, parallaxRaf, activeCards, hovered>>]_vars

\* On a page without filter controls the filter's init has warned and
\* stopped; the pointer was over card 1 when the card module attached its
\* handlers and has moved there without a session; the earlier revision's
\* delays are set and a call without a container has left them.
C26_Witness ==
  /\ cardHandlers = "hover" /\ pointerOver = 1 /\ moves > 0
  /\ activeCards = <<>> /\ parallaxRaf = {}
  /\ NoFilterButtons \in warnings
  /\ variant = "earlier" /\ delay[2] # NoDelay

\* The steps of each controller.  The resync timer belongs to the reveal
\* controller: what it runs is reinitialize().
FilterStep ==
  \/ filterInit
  \/ \E f \in Filters : pillClick(f)
  \/ displayTimerFire

RevealStep ==
  \/ init
  \/ reinitTimerFire
  \/ frame
  \/ \E S \in SUBSET observed : observerCallback(S)
  \/ staggerResetFire

ParallaxStep ==
  \/ \E c \in Cards : mouseenter(c) \/ mouseleave(c)
  \/ \E c \in Cards, x \in MissingXs, y \in MissingYs : mousemove(c, x, y)
  \/ parallaxFrame

initialThemeOf(stored, light) ==
  IF stored \in Themes THEN stored
  ELSE IF light THEN THEME_LIGHT
  ELSE THEME_DARK

\* C29: init applies the stored theme when the key holds 'dark' or
\* 'light', else 'light' when the colour-scheme query says the system
\* prefers light, else 'dark'; any other stored value is passed over (and
\* left in storage), and from init on data-theme is 'dark' or 'light'.
C29_InitialTheme ==
  /\ [](themeReady => dataTheme \in Themes)
  /\ [][themeInit =>
          /\ dataTheme' = initialThemeOf(storedTheme, systemLight)
          /\ storedTheme' = storedTheme]_vars

\* init has passed over a stored 'blue' and followed the system to light.
C29_Witness ==
  /\ themeReady /\ toggleFrom = Null
  /\ storedTheme = "blue" /\ systemLight
  /\ dataTheme = THEME_LIGHT

\* C30: on a page with the toggle, each toggle flips the applied theme and
\* stores it, and a toggle after a toggle brings back the theme the first
\* one left, whatever system changes came between; with 'dark' or 'light'
\* stored a system change leaves the applied theme, and with nothing
\* stored it sets the applied theme to the system's.
C30_ToggleAndSystem ==
  /\ [](toggleFrom # Null => storedTheme = dataTheme)
  /\ [][/\ toggleTheme =>
             /\ dataTheme \in Themes
             /\ dataTheme' = nextTheme(dataTheme)
             /\ dataTheme' # dataTheme
             /\ storedTheme' = dataTheme'
             /\ toggleFrom # Null => dataTheme' = toggleFrom
        /\ \A matches \in BOOLEAN :
             systemChange(matches) =>
               /\ storedTheme \in Themes => dataTheme' = dataTheme
               /\ (storedTheme = Null /\ listensToSystem) =>
                    dataTheme' = IF matches THEN THEME_LIGHT ELSE THEME_DARK]_vars

\* Two toggles were made, the system changed afterwards and the theme is
\* the one the user was left with, not the system's.
C30_Witness ==
  /\ toggleFrom = THEME_LIGHT /\ dataTheme = THEME_DARK
  /\ storedTheme = THEME_DARK /\ systemLight
  /\ transitionTimers = 2

\* A scroll or a resize event on the page whose card module attached the
\* centre highlight.
CenterEvent ==
  /\ cardHandlers = "center"
  /\ \/ \E y \in ScrollPositions : scroll(y)
     \/ \E w \in CenterWidths : resize(w)

\* C31: on a page without hover the recomputation of the centred card is
\* limited to one per frame.  At most one callback is pending, and one is
\* pending exactly while isCenterTicking is set; every scroll or resize
\* event leaves exactly one pending, however many came before it; the
\* frame runs the recomputation once and leaves nothing pending, so that
\* the next event requests a frame again.
C31_OneRecomputationPerFrame ==
  /\ [](/\ centerRaf <= 1
        /\ isCenterTicking <=> centerRaf = 1
        /\ centerEvents > 0 => centerRaf = 1)
  /\ [][/\ CenterEvent => (centerRaf' = 1 /\ UNCHANGED centerVars)
        /\ centerFrame =>
             /\ centerRaf = 1 /\ centerRaf' = 0 /\ ~isCenterTicking'
             /\ \A c, d \in Cards :
                  centered'[c] => distanceToCenter(c) <= distanceToCenter(d)]_vars

\* Three events have arrived since the last frame ran, and one callback is
\* pending for them.
C31_Witness ==
  /\ cardHandlers = "center"
  /\ centerEvents = 3
  /\ centerRaf = 1
  /\ centeredCard # 0

\* C32: an element the re-partition of reinitialize() finds within the
\* viewport is marked revealed while its transitions are still suppressed
\* and carries no stagger delay, so that it appears without animation.
C32_RepartitionRevealsInstantly ==
  [][frame =>
       \A e \in Cards :
         (~revealed[e] /\ revealed'[e]) =>
           /\ transition[e] = "none" /\ transition'[e] = "none"
           /\ delay'[e] \in {NoDelay, 0}]_vars

\* C33: the playback position of a card's video is not reset while the
\* pointer is over the card.  The position reset of an earlier leave (the
\* 'pause' listener of stopCardVideo) does not bring a video that has
\* played back to the start during a later hover, and a hovered card
\* whose play() was allowed has a video that plays.
C33_NoResetWhileHovered ==
  /\ [](\A c \in Cards :
          (pointerOver = c /\ getCardVideo(c) /\ lastPlay[c] \in {"pending", "started"})
            => ~videoPaused[c])
  /\ [][\A c \in Cards :
          (videoTime[c] # 0 /\ videoTime'[c] = 0) => pointerOver # c]_vars

RevealingBatch(S) ==
  /\ variant = "current"
  /\ intersecting(S) # {}
  /\ observerCallback(S) \/ orphanCallback(S)

\* C35: in js/animations.js the element that is the k-th to be revealed by
\* the observer path since the counter was last 0 (k from 0, the elements
\* of one batch in document order) gets the delay k * STAGGER_STEP and
\* the counter is the number of those elements; a batch leaves exactly one
\* reset timer pending, its own; the counter goes back to 0 only when that
\* timer fires; and the frames of reinitialize() give the elements within
\* the viewport the delays 0, STEP, 2 STEP, ... in document order and leave
\* the counter and its timer.
C35_StaggerCounter ==
  /\ [](variant = "current" =>
          /\ staggerIndex = sinceReset
          /\ resetTimers <= 1
          /\ staggerResetTimer <=> resetTimers = 1
          /\ staggerIndex > 0 => staggerResetTimer)
  /\ [][/\ \A S \in SUBSET Cards :
             RevealingBatch(S) =>
               /\ \A e \in intersecting(S) :
                    delay'[e] = (sinceReset + rank(e, intersecting(S))) * STAGGER_STEP
               /\ sinceReset' = sinceReset + Cardinality(intersecting(S))
               /\ resetTimers' = 1
        /\ (staggerIndex' < staggerIndex) =>
             (staggerResetFire /\ staggerIndex' = 0)
        /\ (frame /\ variant = "current") =>
             /\ UNCHANGED staggerVars
             /\ \A e \in Cards :
                  (revealed'[e] /\ ~revealed[e]) =>
                    delay'[e] = rank(e, intersecting(Cards)) * STAGGER_STEP]_vars

\* In the wide window one batch revealed both cards: the counter stands at
\* 2, the second card got the delay of one step, and the reset timer is
\* pending.
C35_Witness ==
  /\ variant = "current" /\ innerWidth = DesktopWidth
  /\ staggerIndex = 2 /\ staggerResetTimer
  /\ byObserver = {1, 2}
  /\ delay[1] = 0 /\ delay[2] = STAGGER_STEP


\* C36: once the navigation module handles scroll positions, whenever the
\* last handled position is at or below SCROLL_THRESHOLD the header does
\* not carry 'nav-hidden'.
C36_NavShownAtTop ==
  scrollAttached =>
    (lastScrollY <= Tenths(SCROLL_THRESHOLD) => ~navHidden)


\* C37: once the menu's handlers are attached, after any sequence of
\* menu-button clicks, menu-link clicks and Escape presses the button and
\* the menu carry 'active' together, exactly when aria-expanded is "true",
\* aria-hidden is "false" and the body's overflow is "hidden"; a closed
\* menu leaves the body's overflow empty.  The button toggles the menu, a
\* menu link and Escape close it.
C37_MenuConsistent ==
  /\ [](menuAttached =>
          /\ btnActive = menuActive
          /\ menuExpanded = (IF btnActive THEN "true" ELSE "false")
          /\ menuHidden = (IF btnActive THEN "false" ELSE "true")
          /\ bodyOverflow = (IF btnActive THEN "hidden" ELSE ""))
  /\ [][/\ menuBtnClick => btnActive' = ~btnActive
        /\ (mobileLinkClick \/ menuEscape) => ~btnActive']_vars

\* The menu is open on a page whose header was scrolled in the meantime.
C37_Witness ==
  /\ menuAttached
  /\ btnActive
  /\ menuActive
  /\ bodyOverflow = "hidden"
  /\ lastScrollY > 0


\* The links the page-transition module animates: a non-empty href that
\* does not start with '#', 'mailto:' or 'tel:', neither target '_blank'
\* nor a download attribute, internal, resolving to another pathname.
AnimatedLink(l) ==
  /\ l.kind \notin {"none", "#", "mailto:", "tel:"}
  /\ ~l.blank
  /\ ~l.download
  /\ isInternal(l)
  /\ l.path # currentPath

\* C38: a link click adds 'page-transitioning' and schedules the
\* navigation 600 ms later iff the link is an AnimatedLink; every other
\* click leaves the body class and the scheduled navigations unchanged; a
\* pageshow event always removes the class.
C38_ClickAnimatesIff ==
  [][/\ \A l \in Links : linkClick(l) =>
          IF AnimatedLink(l)
          THEN /\ pageTransitioning'
               /\ pendingNav' = pendingNav \cup {Navigation(l)}
               /\ Navigation(l).after = 600
          ELSE UNCHANGED <<pageTransitioning, pendingNav>>
     /\ \A persisted \in BOOLEAN : pageshow(persisted) => ~pageTransitioning'
    ]_vars


\* C39: init of the newest page-transition revision restores the saved
\* scroll position of the current path (its whole pixels) only when the
\* recorded last page path equals the current path; with nothing saved it
\* leaves the window where it is; arriving from another path, or on a
\* first visit, it scrolls to the top even if a position is saved for the
\* current path; the recorded last page path becomes the current path.
C39_RestoreOnReloadOnly ==
  /\ []((pageReady /\ pageScript = "part_000") => lastPagePath = currentPath)
  /\ [][(pageInit /\ pageScript = "part_000") =>
          /\ lastPagePath' = currentPath
          /\ IF lastPagePath # currentPath
             THEN /\ initScrollTo' = 0
                  /\ scrollY' = 0
                  /\ subpixel' = 0
             ELSE IF savedScroll[currentPath] = NoPosition
             THEN /\ initScrollTo' = NoPosition
                  /\ UNCHANGED <<scrollY, subpixel>>
             ELSE /\ initScrollTo' = scrollY'
                  /\ subpixel' = 0
                  /\ Tenths(scrollY') <= savedScroll[currentPath]
                  /\ savedScroll[currentPath] < Tenths(scrollY' + 1)]_vars

\* A reload restored a position that was saved between two pixels.
C39_Witness ==
  /\ pageReady
  /\ pageScript = "part_000"
  /\ initScrollTo > 0
  /\ scrollY = initScrollTo
  /\ Tenths(initScrollTo) < savedScroll[currentPath]

====
